---- MODULE Spec2Model ----
(***************************************************************************)
(* A model of the position/order state machine of kite_wrapper/strategy.py *)
(* (StrategyEngine), of the three built-in policies and of the broker the  *)
(* engine talks to.                                                        *)
(*                                                                         *)
(* Prices and point distances are integers in paise (1/100 rupee), so the  *)
(* exchange tick of 0.05 is 5 and _round_tick is a real rounding.          *)
(* An optional value (Optional[ActivePosition]) is a sequence of length 0  *)
(* or 1.  An absent order id or direction is 0 or "".                      *)
(*                                                                         *)
(* Execution contexts: the control-loop thread ("loop"), the feed callback *)
(* thread ("feed"), the caller of start()/stop() ("api").  Each has a      *)
(* frame fr[c]: its position in the code (pc), where the procedure it is   *)
(* in returns to (ret), and the locals of that procedure.                  *)
(***************************************************************************)
EXTENDS Integers, Sequences, FiniteSets, TLC

VARIABLES
    state,      \* StrategyState: the shared, persisted engine state
    engine,     \* StrategyEngine's private fields (_running, _ticker, ...)
    lock,       \* holder of StrategyEngine._lock, "" when free
    fr,         \* one frame per execution context
    orders,     \* the broker's order book; an order's id is its index
    clock,      \* time of day
    auth,       \* KiteClient.is_authenticated
    feeds,      \* number of connected market-data feeds
    history,    \* the append-only trade ledger (HISTORY_FILE)
    disk,       \* the snapshot in STATE_FILE, as _save_state last wrote it
    market,     \* what the broker lists and quotes: instruments("NFO"), ltp()
    obs         \* history variables read only by the properties

vars == <<state, engine, lock, fr, orders, clock, auth, feeds, history, disk, market, obs>>

----------------------------------------------------------------------------
(* Program constants *)

TICK == 5
ENTRY_FAILURE_LIMIT == 5
DEFAULT_POINTS == 1000
START_TIME == 1
STOP_TIME == 2

(* Bounds of the model *)

MaxOrders == 5
MaxStops == 1
MaxTradeOrders == 4
MaxBrokerOrders == 3
DayEnd == 2
LotSize == 2

Loops == {"loop"}
\* a start() that finds the earlier thread alive runs a second thread
Threads == Loops \cup {"loop2"}
Ctx == Threads \cup {"feed", "api"}
Strategies == {"sar", "buy_alternate", "buy_scale_out"}

Opposite(direction) == IF direction = "SELL" THEN "BUY" ELSE "SELL"

----------------------------------------------------------------------------
(* _round_tick: round to the nearest multiple of TICK.  A price in paise   *)
(* is never exactly half way between two ticks.                            *)

round_tick(price) == ((price + 2) \div TICK) * TICK

----------------------------------------------------------------------------
(* The policies (strategies/sar.py, buy_alternate.py, buy_scale_out.py).   *)
(* strategy_data holds at most the key option_type; "" is "key absent".    *)

\* a policy of the BaseStrategy interface that is not in the registry: it
\* enters three lots like buy_scale_out and asks at every target level to
\* exit one lot more than is held
GreedyPolicy == "exit_all"

lot_multiplier(s) == IF s \in {"buy_scale_out", GreedyPolicy} THEN 3 ELSE 1

option_type_of(s, data) == IF s = "sar" \/ data = "" THEN "CE" ELSE data

initial_direction(s, data) ==
    IF s = "sar" THEN [direction |-> "SELL", data |-> data]
    ELSE [direction |-> "BUY", data |-> "CE"]

\* a policy of the BaseStrategy interface that is not in the registry: it
\* buys calls like buy_alternate and returns {"action": "stop"} from
\* on_sl_hit
StopPolicy == "stop_after_sl"

on_sl_hit(s, data, current_direction) ==
    IF s = "sar"
    THEN [action |-> "reverse", direction |-> Opposite(current_direction), data |-> data]
    ELSE IF s = StopPolicy
    THEN [action |-> "stop", direction |-> "", data |-> data]
    ELSE [action |-> "reselect_and_enter", direction |-> "BUY",
          data |-> IF option_type_of(s, data) = "CE" THEN "PE" ELSE "CE"]

\* a policy that only ever trails
on_target_hit_trail(s, lots_remaining) ==
    [action |-> "trail", exit_lots |-> 0]

on_target_hit(s, lots_remaining) ==
    IF s = "buy_scale_out" /\ lots_remaining > 1
    THEN [action |-> "partial_exit", exit_lots |-> 1]
    ELSE IF s = GreedyPolicy
    THEN [action |-> "partial_exit", exit_lots |-> lots_remaining + 1]
    ELSE [action |-> "trail", exit_lots |-> 0]

----------------------------------------------------------------------------
(* Frames *)

Blank == [pc |-> "idle", ret |-> "", direction |-> "", order_id |-> 0,
          fill_price |-> 0, sl_price |-> 0, target_price |-> 0,
          sl_order_id |-> 0, qty |-> 0, lot_size |-> 0, exit_price |-> 0,
          entry_failures |-> 0]

At(c, p) == fr[c].pc = p

Goto(c, p) == fr' = [fr EXCEPT ![c].pc = p]

\* a procedure returns: its locals die, the caller's entry_failures stays
Return(c) == fr' = [fr EXCEPT ![c] = [Blank EXCEPT !.pc = fr[c].ret,
                                                   !.entry_failures = fr[c].entry_failures]]

Call(c, p, r) == fr' = [fr EXCEPT ![c].pc = p, ![c].ret = r]

\* a context may take the lock only when it is free
LockFree == lock = ""

HasPos == state.active_position # <<>>
Pos == state.active_position[1]

----------------------------------------------------------------------------
(* The broker: place_order / cancel_order / modify_order on the order book *)

NewOrder(kind, side, qty, trigger, symbol, tag) ==
    [kind |-> kind, side |-> side, qty |-> qty, trigger |-> trigger,
     symbol |-> symbol, tag |-> tag, status |-> "OPEN", average_price |-> 0,
     notified |-> FALSE]

\* A broker behaviour b says at which prices orders fill (b.prices), how far
\* from its trigger a protective order fills (b.slips), whether a call may
\* succeed (TRUE \in b.ok) or be refused or fail (FALSE \in b.ok), and how
\* many orders a day it takes (b.book): a full book refuses every order.
CanPlace(b) == Len(orders) < b.book

Accepts(b) == CanPlace(b) /\ TRUE \in b.ok

Refuses(b) == ~CanPlace(b) \/ FALSE \in b.ok

Fails(b) == FALSE \in b.ok

cancel_order(os, id) ==
    IF id \in 1..Len(os) /\ os[id].status = "OPEN"
    THEN [os EXCEPT ![id].status = "CANCELLED"]
    ELSE os

\* _cancel_open_orders: every open order on the trading symbol is cancelled
cancel_open_orders(os, symbol) ==
    IF symbol = "" THEN os
    ELSE [i \in 1..Len(os) |->
            IF os[i].symbol = symbol /\ os[i].status = "OPEN"
            THEN [os[i] EXCEPT !.status = "CANCELLED"]
            ELSE os[i]]

SymbolOf(option_type) == IF option_type = "CE" THEN "NIFTY_CE" ELSE "NIFTY_PE"

TokenOf(option_type) == IF option_type = "CE" THEN 1 ELSE 2

----------------------------------------------------------------------------
(* select_nifty_option.  A date is a day number, a calendar month is       *)
(* DaysPerMonth days, an instrument is a record of the fields the selector *)
(* reads.  market.ltp maps a trading symbol to its last price.             *)

MIN_EXPIRY_DAYS == 30
DaysPerMonth == 30
DEFAULT_PREMIUM == 1000

MonthOf(expiry) == expiry \div DaysPerMonth

Abs(x) == IF x < 0 THEN 0 - x ELSE x

\* lines 95-100
all_opts(mk, option_type) ==
    {i \in mk.instruments : /\ i.name = "NIFTY"
                            /\ i.instrument_type = option_type
                            /\ i.expiry >= mk.today + MIN_EXPIRY_DAYS}

\* lines 106-110
all_expiries(mk, option_type) ==
    {i.expiry : i \in {j \in mk.instruments : j.name = "NIFTY" /\ j.instrument_type = option_type}}

\* a calendar in which every expiry is the last of its month
monthly_expiries_all(mk, option_type) ==
    all_expiries(mk, option_type)

\* lines 111-116: the latest expiry of each calendar month
monthly_expiries(mk, option_type) ==
    {e \in all_expiries(mk, option_type) :
        \A f \in all_expiries(mk, option_type) : MonthOf(f) = MonthOf(e) => f <= e}

\* lines 119-122
monthly_opts(mk, option_type) ==
    LET m == {i \in all_opts(mk, option_type) : i.expiry \in monthly_expiries(mk, option_type)}
    IN  IF m = {} THEN all_opts(mk, option_type) ELSE m

\* lines 124-125; asked for only when monthly_opts is not empty
candidates(mk, option_type) ==
    LET m == monthly_opts(mk, option_type)
        target_expiry == CHOOSE e \in {i.expiry : i \in m} : \A i \in m : e <= i.expiry
    IN  {i \in m : i.expiry = target_expiry}

\* a scan that keeps the strike with the highest price
best_strikes_high(priced, ltp, target) ==
    {c \in priced : \A d \in priced : ltp[d.tradingsymbol] <= ltp[c.tradingsymbol]}

\* lines 138-150: the strikes the scan may end with; which of several at the
\* same distance it is depends on the order of the broker's answer
best_strikes(priced, ltp, target) ==
    {c \in priced : \A d \in priced :
        Abs(ltp[c.tradingsymbol] - target) <= Abs(ltp[d.tradingsymbol] - target)}

\* the instruments select_nifty_option may return; none when it returns None
select_nifty_option(mk, settings, option_type) ==
    IF all_opts(mk, option_type) = {} THEN {}
    ELSE LET priced == {c \in candidates(mk, option_type) : mk.ltp[c.tradingsymbol] > 0}
         IN  best_strikes(priced, mk.ltp, settings.target_premium)

\* a market that lists one monthly contract of each type at the target premium
DefaultMarket ==
    [instruments |-> {[name |-> "NIFTY", instrument_type |-> ot, expiry |-> 55, strike |-> 1,
                       tradingsymbol |-> SymbolOf(ot), instrument_token |-> TokenOf(ot),
                       lot_size |-> LotSize] : ot \in {"CE", "PE"}},
     ltp |-> [sym \in {SymbolOf("CE"), SymbolOf("PE")} |-> DEFAULT_PREMIUM],
     today |-> 0]

Instrument(name, option_type, expiry, strike, symbol, token, lot) ==
    [name |-> name, instrument_type |-> option_type, expiry |-> expiry, strike |-> strike,
     tradingsymbol |-> symbol, instrument_token |-> token, lot_size |-> lot]

----------------------------------------------------------------------------
(* Persistence: _state_to_dict, _state_from_dict, _load_state.  A dataclass *)
(* object is a record; the dict that asdict makes of it is that record     *)
(* wrapped as [dict |-> ...]; None is JsonNull.  STATE_FILE holds the dict  *)
(* of the last _save_state (JSON keeps these values as they are).          *)

Today == "today"

JsonNull == [null |-> TRUE]

asdict(obj) == [dict |-> obj]

IsDict(v) == DOMAIN v = {"dict"}

\* Cls(**d)
FromKwargs(d) == d.dict

\* the truth value Python gives a JSON value: None is false, a dict made
\* of a dataclass has keys and is true
Truthy(v) == v # JsonNull

state_to_dict(st) ==
    [settings |-> asdict(st.settings),
     engine_status |-> st.engine_status,
     status_message |-> st.status_message,
     trading_symbol |-> st.trading_symbol,
     instrument_token |-> st.instrument_token,
     lot_size |-> st.lot_size,
     active_position |-> IF st.active_position # <<>>
                         THEN asdict(st.active_position[1]) ELSE JsonNull,
     trades_today |-> [i \in 1..Len(st.trades_today) |->
                          IF IsDict(st.trades_today[i]) THEN st.trades_today[i]
                          ELSE asdict(st.trades_today[i])],
     total_pnl |-> st.total_pnl,
     current_ltp |-> st.current_ltp,
     last_date |-> st.last_date,
     strategy_name |-> st.strategy_name,
     strategy_data |-> st.strategy_data]

\* a reader that leaves the trades as the dicts it found
state_from_dict_raw(d) ==
    [settings |-> FromKwargs(d.settings),
     engine_status |-> d.engine_status,
     status_message |-> d.status_message,
     trading_symbol |-> d.trading_symbol,
     instrument_token |-> d.instrument_token,
     lot_size |-> d.lot_size,
     active_position |-> IF Truthy(d.active_position)
                         THEN <<FromKwargs(d.active_position)>> ELSE <<>>,
     trades_today |-> d.trades_today,
     total_pnl |-> d.total_pnl,
     current_ltp |-> d.current_ltp,
     last_date |-> d.last_date,
     strategy_name |-> d.strategy_name,
     strategy_data |-> d.strategy_data]

state_from_dict(d) ==
    [settings |-> FromKwargs(d.settings),
     engine_status |-> d.engine_status,
     status_message |-> d.status_message,
     trading_symbol |-> d.trading_symbol,
     instrument_token |-> d.instrument_token,
     lot_size |-> d.lot_size,
     active_position |-> IF Truthy(d.active_position)
                         THEN <<FromKwargs(d.active_position)>> ELSE <<>>,
     trades_today |-> [i \in 1..Len(d.trades_today) |->
                          IF IsDict(d.trades_today[i]) THEN FromKwargs(d.trades_today[i])
                          ELSE d.trades_today[i]],
     total_pnl |-> d.total_pnl,
     current_ltp |-> d.current_ltp,
     last_date |-> d.last_date,
     strategy_name |-> d.strategy_name,
     strategy_data |-> d.strategy_data]

\* a rollover that keeps the trades and the profit
rollover_keep(st, today) ==
    IF st.last_date # today
    THEN [st EXCEPT !.active_position = <<>>,
                    !.trading_symbol = "", !.instrument_token = 0, !.strategy_data = "",
                    !.last_date = today, !.engine_status = "STOPPED"]
    ELSE st

\* lines 156-165: the first load of a day
rollover(st, today) ==
    IF st.last_date # today
    THEN [st EXCEPT !.trades_today = <<>>, !.total_pnl = 0, !.active_position = <<>>,
                    !.trading_symbol = "", !.instrument_token = 0, !.strategy_data = "",
                    !.last_date = today, !.engine_status = "STOPPED"]
    ELSE st

\* _load_state on an existing STATE_FILE holding the dict d
load_state(d, today) == rollover(state_from_dict(d), today)

----------------------------------------------------------------------------
(* The state after construction (__init__, _load_state): a fresh state, or *)
(* the snapshot of a process that died today while it held a Position; the *)
(* protective order of that Position is then open, filled or cancelled,    *)
(* and the start time has passed.                                          *)

Settings(s, qty) ==
    [enabled |-> FALSE, start_time |-> START_TIME, stop_time |-> STOP_TIME,
     sl_points |-> DEFAULT_POINTS, target_points |-> DEFAULT_POINTS, quantity |-> qty,
     target_premium |-> DEFAULT_PREMIUM]

FreshState(s) ==
    [settings |-> Settings(s, 0), engine_status |-> "STOPPED", status_message |-> "",
     trading_symbol |-> "", instrument_token |-> 0, lot_size |-> 0,
     active_position |-> <<>>, trades_today |-> <<>>, total_pnl |-> 0,
     current_ltp |-> 0, last_date |-> Today, strategy_name |-> s, strategy_data |-> ""]

EntryPrice0 == 100 * 100

PersistedPosition(s) ==
    LET d == initial_direction(s, "").direction
    IN  [direction |-> d, entry_price |-> EntryPrice0,
         sl_price |-> IF d = "SELL" THEN EntryPrice0 + DEFAULT_POINTS ELSE EntryPrice0 - DEFAULT_POINTS,
         target_price |-> IF d = "SELL" THEN EntryPrice0 - DEFAULT_POINTS ELSE EntryPrice0 + DEFAULT_POINTS,
         sl_order_id |-> 2, order_id |-> 1, remaining_lots |-> lot_multiplier(s)]

CrashedState(s) ==
    [FreshState(s) EXCEPT
        !.settings = [Settings(s, lot_multiplier(s)) EXCEPT !.enabled = TRUE],
        !.engine_status = "ACTIVE", !.status_message = "Trading",
        !.trading_symbol = SymbolOf("CE"), !.instrument_token = TokenOf("CE"),
        !.lot_size = LotSize,
        !.active_position = <<PersistedPosition(s)>>,
        !.strategy_data = initial_direction(s, "").data]

CrashedOrders(s, sl_status) ==
    LET p == PersistedPosition(s)
        q == p.remaining_lots * LotSize
    IN  << [NewOrder("LIMIT", p.direction, q, 0, SymbolOf("CE"), "entry")
               EXCEPT !.status = "COMPLETE", !.average_price = p.entry_price, !.notified = TRUE],
           [NewOrder("SL", Opposite(p.direction), q, p.sl_price, SymbolOf("CE"), "sl")
               EXCEPT !.status = sl_status,
                      !.average_price = IF sl_status = "COMPLETE" THEN p.sl_price ELSE 0,
                      !.notified = (sl_status # "OPEN")] >>

Engine0(s) ==
    [running |-> FALSE, thread |-> "", ticker |-> "", reversal_in_progress |-> FALSE,
     pending_direction |-> "", pending_partial_exits |-> 0, strategy |-> s]

Obs0 == [stop_returned |-> FALSE, failed_entries |-> 0, spins |-> 0, stops |-> 0,
         configs |-> 0, error |-> "", loads |-> 0,
         recovery_closed |-> FALSE, policy_stopped |-> FALSE]

InitEngine ==
    /\ lock = ""
    /\ fr = [c \in Ctx |-> Blank]
    /\ clock \in 0..DayEnd
    /\ auth \in BOOLEAN
    /\ feeds = 0
    /\ history = <<>>
    /\ obs = Obs0

InitCommon ==
    /\ InitEngine
    /\ market = DefaultMarket

Init ==
    /\ InitCommon
    /\ \E s \in Strategies :
         /\ engine = Engine0(s)
         /\ \/ disk = state_to_dict(FreshState(s)) /\ orders = <<>>
            \/ \E st \in {"OPEN", "COMPLETE", "CANCELLED"} :
                 /\ disk = state_to_dict(CrashedState(s))
                 /\ orders = CrashedOrders(s, st)
                 /\ clock >= START_TIME
    /\ state = load_state(disk, Today)

----------------------------------------------------------------------------
(* _close_position: record the trade and clear the Position (one critical  *)
(* section), then append the trade to the ledger.  round(pnl, 2) is the    *)
(* identity on paise.                                                      *)

\* a profit counted as if every Position were long
close_pnl_long(pos, exit_price, lots, lot_size) ==
    (exit_price - pos.entry_price) * (lots * lot_size)

close_pnl(pos, exit_price, lots, lot_size) ==
    IF pos.direction = "SELL"
    THEN (pos.entry_price - exit_price) * (lots * lot_size)
    ELSE (exit_price - pos.entry_price) * (lots * lot_size)

close_lots(pos, st) ==
    IF pos.remaining_lots > 0 THEN pos.remaining_lots ELSE st.settings.quantity

close_trade(st, exit_price) ==
    LET pos == st.active_position[1]
        lots == close_lots(pos, st)
    IN  [direction |-> pos.direction, entry_price |-> pos.entry_price,
         exit_price |-> exit_price, entry_time |-> "entry",
         pnl |-> close_pnl(pos, exit_price, lots, st.lot_size),
         quantity |-> lots, symbol |-> st.trading_symbol]

\* the state after _close_position(exit_price)
\* a close that records the trade and leaves the day's total alone
close_position_unbooked(st, exit_price) ==
    IF st.active_position = <<>> THEN st
    ELSE [st EXCEPT !.trades_today = Append(@, close_trade(st, exit_price)),
                    !.active_position = <<>>]

close_position(st, exit_price) ==
    IF st.active_position = <<>> THEN st
    ELSE [st EXCEPT !.trades_today = Append(@, close_trade(st, exit_price)),
                    !.total_pnl = @ + close_trade(st, exit_price).pnl,
                    !.active_position = <<>>]

\* STATE_FILE after _close_position(exit_price): saved when a Position
\* was closed (line 518)
close_disk(st, exit_price) ==
    IF st.active_position = <<>> THEN disk
    ELSE state_to_dict(close_position(st, exit_price))

\* the ledger after _close_position(exit_price)
close_history(st, exit_price) ==
    IF st.active_position = <<>> THEN history
    ELSE Append(history, close_trade(st, exit_price))

----------------------------------------------------------------------------
(* _start_ticker / _stop_ticker.  A feed that is connected when another is *)
(* started stays connected; the count saturates at MaxFeeds.               *)

MaxFeeds == 2

start_ticker_ok == auth /\ state.trading_symbol # ""

ticker_after_start == IF start_ticker_ok THEN "T" ELSE engine.ticker

feeds_after_start ==
    IF start_ticker_ok THEN (IF feeds < MaxFeeds THEN feeds + 1 ELSE feeds) ELSE feeds

feeds_after_stop == IF engine.ticker # "" /\ feeds > 0 THEN feeds - 1 ELSE feeds

\* an order update is pushed to the feeds connected at that moment: with
\* the last feed closed, the updates not yet delivered are lost
orders_after_stop ==
    IF feeds_after_stop > 0 THEN orders
    ELSE [i \in 1..Len(orders) |-> [orders[i] EXCEPT !.notified = TRUE]]

----------------------------------------------------------------------------
(* _enter_position, run by context c (the control loop, or the feed        *)
(* callback after a stop-loss hit).  fr[c].direction is its argument.      *)

FillFailures == {"CANCELLED"}

\* history: the loop's consecutive entries that recorded no Position
ObsEntryFailed(c) ==
    IF c \in Loops /\ obs.failed_entries < ENTRY_FAILURE_LIMIT + 1
    THEN [obs EXCEPT !.failed_entries = @ + 1] ELSE obs

ObsEntryRecorded(c) ==
    IF c \in Loops THEN [obs EXCEPT !.failed_entries = 0] ELSE obs

\* _cancel_open_orders, then _place_entry_order (no LTP or the broker's
\* refusal: no order)
ep_place(c, b) ==
    /\ At(c, "ep_place")
    /\ LET os == cancel_open_orders(orders, state.trading_symbol)
           qty == state.settings.quantity * state.lot_size
       IN  \/ /\ Accepts(b)
              /\ orders' = Append(os, NewOrder("LIMIT", fr[c].direction, qty, 0,
                                               state.trading_symbol, "entry"))
              /\ fr' = [fr EXCEPT ![c].pc = "ep_fill", ![c].order_id = Len(orders) + 1]
              /\ obs' = obs
           \/ /\ Refuses(b)
              /\ orders' = os
              /\ Return(c)
              /\ obs' = ObsEntryFailed(c)
    /\ UNCHANGED <<state, disk, engine, lock, clock, market, auth, feeds, history>>

\* _get_fill_price: COMPLETE at a price, or CANCELLED/REJECTED/timeout
ep_fill(c, b) ==
    /\ At(c, "ep_fill")
    /\ LET id == fr[c].order_id
       IN  IF orders[id].status = "OPEN"
           THEN \/ \E p \in b.prices :
                     /\ orders' = [orders EXCEPT ![id].status = "COMPLETE",
                                                 ![id].average_price = p]
                     /\ fr' = [fr EXCEPT ![c].pc = "ep_sl", ![c].fill_price = p]
                     /\ obs' = obs
                \/ \E f \in FillFailures :
                     /\ Fails(b)
                     /\ orders' = [orders EXCEPT ![id].status = f]
                     /\ Return(c)
                     /\ obs' = ObsEntryFailed(c)
           ELSE /\ orders' = orders
                /\ Return(c)
                /\ obs' = ObsEntryFailed(c)
    /\ UNCHANGED <<state, disk, engine, lock, clock, market, auth, feeds, history>>

\* a stop-loss that is not rounded to the tick
entry_sl_price_exact(direction, fill_price, sl_pts) ==
    IF direction = "SELL" THEN fill_price + sl_pts ELSE fill_price - sl_pts

entry_sl_price(direction, fill_price, sl_pts) ==
    IF direction = "SELL" THEN round_tick(fill_price + sl_pts)
    ELSE round_tick(fill_price - sl_pts)

entry_target_price(direction, fill_price, tgt_pts) ==
    IF direction = "SELL" THEN round_tick(fill_price - tgt_pts)
    ELSE round_tick(fill_price + tgt_pts)

\* stop-loss and target from the fill; _place_sl_order; when that fails the
\* closing order of lines 460-463, whose result the code does not look at
ep_sl(c, b) ==
    /\ At(c, "ep_sl")
    /\ LET d == fr[c].direction
           slp == entry_sl_price(d, fr[c].fill_price, state.settings.sl_points)
           tgt == entry_target_price(d, fr[c].fill_price, state.settings.target_points)
           qty == state.settings.quantity * state.lot_size
       IN  \/ /\ Accepts(b)
              /\ orders' = Append(orders, NewOrder("SL", Opposite(d), qty, round_tick(slp),
                                                   state.trading_symbol, "sl"))
              /\ fr' = [fr EXCEPT ![c].pc = "ep_record", ![c].sl_price = slp,
                                  ![c].target_price = tgt,
                                  ![c].sl_order_id = Len(orders) + 1]
              /\ obs' = obs
           \/ /\ Refuses(b)
              /\ \/ /\ Accepts(b)
                    /\ orders' = Append(orders, NewOrder("LIMIT", Opposite(d), qty, 0,
                                                         state.trading_symbol, "flatten"))
                    /\ obs' = ObsEntryFailed(c)
                 \/ /\ Refuses(b)
                    /\ orders' = orders
                    /\ obs' = ObsEntryFailed(c)
              /\ Return(c)
    /\ UNCHANGED <<state, disk, engine, lock, clock, market, auth, feeds, history>>

new_position(f, lots) ==
    [direction |-> f.direction, entry_price |-> f.fill_price, sl_price |-> f.sl_price,
     target_price |-> f.target_price, sl_order_id |-> f.sl_order_id,
     order_id |-> f.order_id, remaining_lots |-> lots]

\* lines 467-480: the Position is recorded
ep_record(c) ==
    /\ At(c, "ep_record")
    /\ LockFree
    /\ state' = [state EXCEPT !.active_position =
                     <<new_position(fr[c], state.settings.quantity)>>]
    /\ disk' = state_to_dict(state')
    /\ engine' = [engine EXCEPT !.pending_partial_exits = 0]
    /\ obs' = ObsEntryRecorded(c)
    /\ Return(c)
    /\ UNCHANGED <<lock, orders, clock, market, auth, feeds, history>>

----------------------------------------------------------------------------
(* _square_off, run by context c (the loop at stop time or in recovery,    *)
(* or the caller of stop()).                                               *)

sq_begin(c, b) ==
    /\ At(c, "sq_begin")
    /\ LockFree
    /\ IF ~HasPos
       THEN /\ Return(c)
            /\ UNCHANGED <<state, disk, orders, history>>
       ELSE LET os == IF Pos.sl_order_id # 0 THEN cancel_order(orders, Pos.sl_order_id)
                      ELSE orders
                qty == close_lots(Pos, state) * state.lot_size
            IN  \/ /\ Accepts(b)
                   /\ orders' = Append(os, NewOrder("LIMIT", Opposite(Pos.direction), qty, 0,
                                                    state.trading_symbol, "squareoff"))
                   /\ fr' = [fr EXCEPT ![c].pc = "sq_fill", ![c].order_id = Len(orders) + 1]
                   /\ UNCHANGED <<state, disk, history>>
                \/ /\ Refuses(b)
                   /\ orders' = os
                   /\ state' = close_position(state, 0)
                   /\ disk' = close_disk(state, 0)
                   /\ history' = close_history(state, 0)
                   /\ Return(c)
    /\ UNCHANGED <<engine, lock, clock, market, auth, feeds, obs>>

sq_fill(c, b) ==
    /\ At(c, "sq_fill")
    /\ LockFree
    /\ LET id == fr[c].order_id
       IN  IF orders[id].status = "OPEN"
           THEN \/ \E p \in b.prices :
                     /\ orders' = [orders EXCEPT ![id].status = "COMPLETE",
                                                 ![id].average_price = p]
                     /\ state' = close_position(state, p)
                     /\ disk' = close_disk(state, p)
                     /\ history' = close_history(state, p)
                \/ \E f \in FillFailures :
                     /\ Fails(b)
                     /\ orders' = [orders EXCEPT ![id].status = f]
                     /\ state' = close_position(state, 0)
                     /\ disk' = close_disk(state, 0)
                     /\ history' = close_history(state, 0)
           ELSE /\ orders' = orders
                /\ state' = close_position(state, 0)
                /\ disk' = close_disk(state, 0)
                /\ history' = close_history(state, 0)
    /\ Return(c)
    /\ UNCHANGED <<engine, lock, clock, market, auth, feeds, obs>>

----------------------------------------------------------------------------
(* _execute_partial_exit, run by the control loop.                         *)

partial_pnl(direction, entry_price, exit_price, actual_qty) ==
    IF direction = "SELL" THEN (entry_price - exit_price) * actual_qty
    ELSE (exit_price - entry_price) * actual_qty

\* a record that books the whole remaining quantity instead of the lot
partial_trade_whole(f, symbol) ==
    [direction |-> f.direction, entry_price |-> f.fill_price,
     exit_price |-> f.exit_price, entry_time |-> "partial",
     pnl |-> partial_pnl(f.direction, f.fill_price, f.exit_price, f.qty + f.lot_size),
     quantity |-> 1, symbol |-> symbol]

partial_trade(f, symbol) ==
    [direction |-> f.direction, entry_price |-> f.fill_price,
     exit_price |-> f.exit_price, entry_time |-> "partial",
     pnl |-> partial_pnl(f.direction, f.fill_price, f.exit_price, f.lot_size),
     quantity |-> 1, symbol |-> symbol]

\* lines 671-681: take one pending exit, snapshot the Position
pe_begin(c) ==
    /\ At(c, "pe_begin")
    /\ LockFree
    /\ IF ~HasPos \/ engine.pending_partial_exits <= 0
       THEN /\ Return(c)
            /\ UNCHANGED engine
       ELSE /\ engine' = [engine EXCEPT !.pending_partial_exits = @ - 1]
            /\ fr' = [fr EXCEPT ![c].pc = "pe_cancel",
                                ![c].direction = Pos.direction,
                                ![c].fill_price = Pos.entry_price,
                                ![c].sl_order_id = Pos.sl_order_id,
                                ![c].sl_price = Pos.sl_price,
                                ![c].qty = Pos.remaining_lots * state.lot_size,
                                ![c].lot_size = state.lot_size]
    /\ UNCHANGED <<state, disk, lock, orders, clock, market, auth, feeds, history, obs>>

\* line 685: the protective order is cancelled
pe_cancel(c) ==
    /\ At(c, "pe_cancel")
    /\ orders' = cancel_order(orders, fr[c].sl_order_id)
    /\ Goto(c, "pe_place")
    /\ UNCHANGED <<state, disk, engine, lock, clock, market, auth, feeds, history, obs>>

\* lines 687-693: the one-lot exit is placed; when that fails, the
\* protective order is re-placed for qty + one lot
pe_place(c, b) ==
    /\ At(c, "pe_place")
    /\ LET f == fr[c]
           os == orders
       IN  \/ /\ Accepts(b)
              /\ orders' = Append(os, NewOrder("LIMIT", Opposite(f.direction), f.lot_size, 0,
                                               state.trading_symbol, "partial"))
              /\ fr' = [fr EXCEPT ![c].pc = "pe_fill", ![c].order_id = Len(orders) + 1]
           \/ /\ Fails(b)
              /\ CanPlace(b)
              /\ orders' = Append(os, NewOrder("SL", Opposite(f.direction), f.qty + f.lot_size,
                                               round_tick(f.sl_price),
                                               state.trading_symbol, "sl"))
              /\ fr' = [fr EXCEPT ![c].pc = "pe_restore", ![c].sl_order_id = Len(orders) + 1]
           \/ /\ Refuses(b)
              /\ orders' = os
              /\ fr' = [fr EXCEPT ![c].pc = "pe_restore", ![c].sl_order_id = 0]
    /\ UNCHANGED <<state, disk, engine, lock, clock, market, auth, feeds, history, obs>>

\* lines 694-699
pe_restore(c) ==
    /\ At(c, "pe_restore")
    /\ LockFree
    /\ state' = IF HasPos /\ fr[c].sl_order_id # 0
                THEN [state EXCEPT !.active_position[1].sl_order_id = fr[c].sl_order_id,
                                   !.active_position[1].remaining_lots = @ + 1]
                ELSE state
    /\ disk' = IF HasPos /\ fr[c].sl_order_id # 0 THEN state_to_dict(state') ELSE disk
    /\ Return(c)
    /\ UNCHANGED <<engine, lock, orders, clock, market, auth, feeds, history, obs>>

\* lines 701-705: the exit's fill; on failure the protective order is
\* re-placed for the reduced quantity
pe_fill(c, b) ==
    /\ At(c, "pe_fill")
    /\ LET f == fr[c]
           id == f.order_id
           failed(os) ==
               \/ /\ Accepts(b)
                  /\ orders' = Append(os, NewOrder("SL", Opposite(f.direction), f.qty,
                                                   round_tick(f.sl_price),
                                                   state.trading_symbol, "sl"))
                  /\ fr' = [fr EXCEPT ![c].pc = "pe_update", ![c].sl_order_id = Len(os) + 1]
               \/ /\ Refuses(b)
                  /\ orders' = os
                  /\ fr' = [fr EXCEPT ![c].pc = "pe_update", ![c].sl_order_id = 0]
       IN  IF orders[id].status = "OPEN"
           THEN \/ \E p \in b.prices :
                     /\ orders' = [orders EXCEPT ![id].status = "COMPLETE",
                                                 ![id].average_price = p]
                     /\ fr' = [fr EXCEPT ![c].pc = "pe_record", ![c].exit_price = p]
                \/ \E x \in FillFailures :
                     Fails(b) /\ failed([orders EXCEPT ![id].status = x])
           ELSE failed(orders)
    /\ UNCHANGED <<state, disk, engine, lock, clock, market, auth, feeds, history, obs>>

\* line 713: _record_partial_trade
pe_record(c) ==
    /\ At(c, "pe_record")
    /\ LockFree
    /\ LET f == fr[c]
           t == partial_trade(f, state.trading_symbol)
       IN  /\ state' = [state EXCEPT !.trades_today = Append(@, t),
                                     !.total_pnl = @ + t.pnl]
           /\ disk' = state_to_dict(state')
           /\ history' = Append(history, t)
    /\ Goto(c, "pe_sl")
    /\ UNCHANGED <<engine, lock, orders, clock, market, auth, feeds, obs>>

\* line 716: the new protective order
pe_sl(c, b) ==
    /\ At(c, "pe_sl")
    /\ LET f == fr[c]
       IN  \/ /\ Accepts(b)
              /\ orders' = Append(orders, NewOrder("SL", Opposite(f.direction), f.qty,
                                                   round_tick(f.sl_price),
                                                   state.trading_symbol, "sl"))
              /\ fr' = [fr EXCEPT ![c].pc = "pe_update", ![c].sl_order_id = Len(orders) + 1]
           \/ /\ Refuses(b)
              /\ orders' = orders
              /\ fr' = [fr EXCEPT ![c].pc = "pe_update", ![c].sl_order_id = 0]
    /\ UNCHANGED <<state, disk, engine, lock, clock, market, auth, feeds, history, obs>>

\* lines 706-709 and 718-721
pe_update(c) ==
    /\ At(c, "pe_update")
    /\ LockFree
    /\ state' = IF HasPos /\ fr[c].sl_order_id # 0
                THEN [state EXCEPT !.active_position[1].sl_order_id = fr[c].sl_order_id]
                ELSE state
    /\ disk' = IF HasPos /\ fr[c].sl_order_id # 0 THEN state_to_dict(state') ELSE disk
    /\ Return(c)
    /\ UNCHANGED <<engine, lock, orders, clock, market, auth, feeds, history, obs>>

----------------------------------------------------------------------------
(* _select_instrument: the policy picks the contract of its option type    *)
(* (select_nifty_option may fail); the engine stores it and corrects the   *)
(* lot count to the policy's multiplier.                                   *)

\* a correction that forgets the multiple
corrected_quantity_min(qty, min_lots) ==
    IF qty < min_lots THEN min_lots ELSE qty

corrected_quantity(qty, min_lots) ==
    IF qty < min_lots \/ qty % min_lots # 0 THEN min_lots ELSE qty

\* the policy's select_instrument: what it may return for this market
policy_select_instrument(mk, st) ==
    select_nifty_option(mk, st.settings, option_type_of(engine.strategy, st.strategy_data))

\* lines 227-249, for the instrument the policy returned
select_instrument(st, chosen) ==
    [st EXCEPT !.trading_symbol = chosen.tradingsymbol,
               !.instrument_token = chosen.instrument_token,
               !.lot_size = chosen.lot_size,
               !.settings.quantity = corrected_quantity(@, lot_multiplier(engine.strategy))]

----------------------------------------------------------------------------
(* _engine_loop, run by thread t.                                          *)

SetStatus(st, status, message) ==
    [st EXCEPT !.engine_status = status, !.status_message = message]

\* lines 866-869
loop_start(t) ==
    /\ At(t, "start")
    /\ LockFree
    /\ state' = SetStatus(state, "WAITING", "Starting")
    /\ disk' = state_to_dict(state')
    /\ Goto(t, "recover")
    /\ obs' = [obs EXCEPT !.failed_entries = 0]
    /\ UNCHANGED <<engine, lock, orders, clock, market, auth, feeds, history>>

\* line 873, and _attempt_recovery up to its snapshot (lines 826-830)
loop_recover(t) ==
    /\ At(t, "recover")
    /\ IF HasPos /\ auth
       THEN /\ LockFree
            /\ fr' = [fr EXCEPT ![t].pc = "rec_hist", ![t].sl_order_id = Pos.sl_order_id]
       ELSE Goto(t, "top")
    /\ UNCHANGED <<state, disk, engine, lock, orders, clock, market, auth, feeds, history, obs>>

\* _attempt_recovery, lines 837-858, and lines 875-879
loop_rec_hist(t, b) ==
    /\ At(t, "rec_hist")
    /\ LET id == fr[t].sl_order_id
           known == id \in 1..Len(orders)
           back == fr' = [fr EXCEPT ![t].pc = "top", ![t].sl_order_id = 0]
       IN  \/ /\ Fails(b) \/ ~known
              /\ back
              /\ UNCHANGED <<state, disk, engine, feeds, history, obs>>
           \/ /\ known /\ orders[id].status = "COMPLETE"
              /\ LockFree
              /\ state' = close_position(state, orders[id].average_price)
              /\ disk' = close_disk(state, orders[id].average_price)
              /\ history' = close_history(state, orders[id].average_price)
              /\ back
              /\ obs' = [obs EXCEPT !.recovery_closed = HasPos]
              /\ UNCHANGED <<engine, feeds>>
           \/ /\ known /\ orders[id].status \in {"CANCELLED", "REJECTED"}
              /\ fr' = [fr EXCEPT ![t].pc = "sq_begin", ![t].ret = "top", ![t].sl_order_id = 0]
              /\ UNCHANGED <<state, disk, engine, feeds, history, obs>>
           \/ /\ known /\ orders[id].status = "OPEN"
              /\ LockFree
              /\ state' = [state EXCEPT !.engine_status = "ACTIVE"]
              /\ disk' = state_to_dict(state')
              /\ engine' = [engine EXCEPT !.ticker = ticker_after_start]
              /\ feeds' = feeds_after_start
              /\ back
              /\ UNCHANGED <<history, obs>>
    /\ UNCHANGED <<lock, orders, clock, market, auth>>

\* a loop that does not wait for the start time
loop_branch_early(running, now, settings, authenticated) ==
    IF ~running THEN "exit"
    ELSE IF now >= settings.stop_time THEN "eod"
    ELSE IF ~authenticated THEN "stop"
    ELSE "trade"

\* lines 883-916: where one pass of the loop goes first
loop_branch(running, now, settings, authenticated) ==
    IF ~running THEN "exit"
    ELSE IF now >= settings.stop_time THEN "eod"
    ELSE IF now < settings.start_time THEN "wait"
    ELSE IF ~authenticated THEN "stop"
    ELSE "trade"

\* lines 883-923: the loop condition, the time window, authentication
loop_top(t) ==
    /\ At(t, "top")
    /\ LET branch == loop_branch(engine.running, clock, state.settings, auth)
       IN
       IF branch = "exit"
       THEN Goto(t, "exit") /\ UNCHANGED <<state, disk>>
       ELSE IF branch = "eod"
       THEN Goto(t, "eod") /\ UNCHANGED <<state, disk>>
       ELSE IF branch = "wait"
       THEN /\ LockFree
            /\ state' = IF state.engine_status # "WAITING"
                        THEN SetStatus(state, "WAITING", "Waiting for market open")
                        ELSE state
            /\ disk' = IF state.engine_status # "WAITING" THEN state_to_dict(state') ELSE disk
            /\ UNCHANGED fr
       ELSE IF branch = "stop"
       THEN /\ LockFree
            /\ state' = SetStatus(state, "STOPPED", "Not authenticated")
            /\ disk' = state_to_dict(state')
            /\ Goto(t, "exit")
       ELSE /\ LockFree
            /\ state' = IF state.engine_status # "ACTIVE"
                        THEN SetStatus(state, "ACTIVE",
                                 IF state.trading_symbol # "" THEN "Trading" ELSE "Active")
                        ELSE state
            /\ disk' = IF state.engine_status # "ACTIVE" THEN state_to_dict(state') ELSE disk
            /\ Goto(t, "select")
    /\ UNCHANGED <<engine, lock, orders, clock, market, auth, feeds, history, obs>>

\* lines 889-891
loop_eod(t) ==
    /\ At(t, "eod")
    /\ IF HasPos THEN Call(t, "sq_begin", "eod2") ELSE Goto(t, "eod2")
    /\ UNCHANGED <<state, disk, engine, lock, orders, clock, market, auth, feeds, history, obs>>

\* lines 892-897
loop_eod2(t) ==
    /\ At(t, "eod2")
    /\ LockFree
    /\ engine' = [engine EXCEPT !.ticker = ""]
    /\ feeds' = feeds_after_stop
    /\ orders' = orders_after_stop
    /\ state' = SetStatus(state, "MARKET_CLOSED", "Market closed")
    /\ disk' = state_to_dict(state')
    /\ Goto(t, "exit")
    /\ UNCHANGED <<lock, clock, market, auth, history, obs>>

\* lines 926-938
loop_select(t, b) ==
    /\ At(t, "select")
    /\ LockFree
    /\ IF state.trading_symbol = ""
       THEN \/ /\ Fails(b) \/ policy_select_instrument(market, state) = {}
               /\ state' = SetStatus(state, "STOPPED", "Instrument selection failed")
               /\ disk' = state_to_dict(state')
               /\ Goto(t, "exit")
            \/ /\ TRUE \in b.ok
               /\ \E chosen \in policy_select_instrument(market, state) :
                    /\ state' = [select_instrument(state, chosen)
                                   EXCEPT !.status_message = "Trading"]
                    /\ disk' = state_to_dict(select_instrument(state, chosen))
               /\ Goto(t, "ticker")
       ELSE /\ state' = [state EXCEPT !.status_message = "Trading"]
            /\ disk' = disk
            /\ Goto(t, "ticker")
    /\ UNCHANGED <<engine, lock, orders, clock, market, auth, feeds, history, obs>>

\* lines 941-943
loop_ticker(t) ==
    /\ At(t, "ticker")
    /\ IF engine.ticker = ""
       THEN /\ engine' = [engine EXCEPT !.ticker = ticker_after_start]
            /\ feeds' = feeds_after_start
       ELSE UNCHANGED <<engine, feeds>>
    /\ Goto(t, "pexit")
    /\ UNCHANGED <<state, disk, lock, orders, clock, market, auth, history, obs>>

\* lines 946-948
loop_pexit(t) ==
    /\ At(t, "pexit")
    /\ IF engine.pending_partial_exits > 0
       THEN Call(t, "pe_begin", "top")
       ELSE Goto(t, "chk_pos")
    /\ UNCHANGED <<state, disk, engine, lock, orders, clock, market, auth, feeds, history, obs>>

\* line 951, first operand: the Position is read
loop_chk_pos(t) ==
    /\ At(t, "chk_pos")
    /\ IF HasPos THEN Goto(t, "top") ELSE Goto(t, "chk_rev")
    /\ UNCHANGED <<state, disk, engine, lock, orders, clock, market, auth, feeds, history, obs>>

\* line 951, second operand (the flag is read after the Position), and
\* lines 952-961
loop_chk_rev(t) ==
    /\ At(t, "chk_rev")
    /\ IF engine.reversal_in_progress
       THEN /\ Goto(t, "top")
            /\ UNCHANGED <<state, disk, engine>>
       ELSE IF fr[t].entry_failures >= ENTRY_FAILURE_LIMIT
       THEN /\ LockFree
            /\ state' = SetStatus(state, "STOPPED", "Entry failed 5 times")
            /\ disk' = state_to_dict(state')
            /\ Goto(t, "exit")
            /\ UNCHANGED engine
       ELSE LET first == initial_direction(engine.strategy, state.strategy_data)
                pending == engine.pending_direction
            IN  /\ state' = IF pending = "" THEN [state EXCEPT !.strategy_data = first.data]
                            ELSE state
                /\ disk' = disk
                /\ engine' = [engine EXCEPT !.pending_direction = ""]
                /\ fr' = [fr EXCEPT ![t].pc = "ep_place", ![t].ret = "post_entry",
                                    ![t].direction = IF pending = "" THEN first.direction
                                                     ELSE pending]
    /\ UNCHANGED <<lock, orders, clock, market, auth, feeds, history, obs>>

\* lines 962-968
loop_post_entry(t) ==
    /\ At(t, "post_entry")
    /\ fr' = [fr EXCEPT ![t].pc = "top",
                        ![t].entry_failures = IF HasPos THEN 0 ELSE @ + 1]
    /\ UNCHANGED <<state, disk, engine, lock, orders, clock, market, auth, feeds, history, obs>>

\* line 972: the thread ends
loop_exit(t) ==
    /\ At(t, "exit")
    /\ engine' = [engine EXCEPT !.running = FALSE]
    /\ fr' = [fr EXCEPT ![t] = Blank]
    /\ UNCHANGED <<state, disk, lock, orders, clock, market, auth, feeds, history, obs>>

----------------------------------------------------------------------------
(* _handle_tick, run by the feed callback.                                 *)

Min(a, b) == IF a < b THEN a ELSE b

crossed(pos, ltp) ==
    \/ pos.direction = "SELL" /\ ltp <= pos.target_price
    \/ pos.direction = "BUY" /\ ltp >= pos.target_price

\* a pass that moves the target and leaves the stop-loss behind
trail_target_only(pos, sl_pts, tgt_pts) ==
    IF pos.direction = "SELL"
    THEN [pos EXCEPT !.target_price = round_tick(@ - tgt_pts)]
    ELSE [pos EXCEPT !.target_price = round_tick(@ + tgt_pts)]

\* one pass of the while loop of lines 633-642
trail_once(pos, sl_pts, tgt_pts) ==
    IF pos.direction = "SELL"
    THEN [pos EXCEPT !.target_price = round_tick(@ - tgt_pts),
                     !.sl_price = round_tick(@ - sl_pts)]
    ELSE [pos EXCEPT !.target_price = round_tick(@ + tgt_pts),
                     !.sl_price = round_tick(@ + sl_pts)]

\* the while loop never ends when a pass does not move the target past
\* where it was
never_ends(pos, ltp, tgt_pts) ==
    /\ crossed(pos, ltp)
    /\ \/ pos.direction = "SELL" /\ round_tick(pos.target_price - tgt_pts) >= pos.target_price
       \/ pos.direction = "BUY" /\ round_tick(pos.target_price + tgt_pts) <= pos.target_price

RECURSIVE trail(_, _, _, _, _)
trail(pos, ltp, sl_pts, tgt_pts, n) ==
    IF crossed(pos, ltp)
    THEN trail(trail_once(pos, sl_pts, tgt_pts), ltp, sl_pts, tgt_pts, n + 1)
    ELSE [pos |-> pos, targets_crossed |-> n]

\* lines 645-655: the policy is asked once per level crossed
RECURSIVE target_hits(_, _, _)
\* a count that grants whatever the policy asks for
target_hits_unclamped(s, lots, n) ==
    [lots |-> IF n > 0 /\ on_target_hit(s, lots).action = "partial_exit"
              THEN lots - on_target_hit(s, lots).exit_lots ELSE lots,
     partial_exits |-> IF n > 0 /\ on_target_hit(s, lots).action = "partial_exit"
                       THEN on_target_hit(s, lots).exit_lots ELSE 0]

\* a count that forgets the exits it grants
target_hits_uncounted(s, lots, n) ==
    [lots |-> IF n > 0 /\ on_target_hit(s, lots).action = "partial_exit" /\ lots > 1
              THEN lots - 1 ELSE lots,
     partial_exits |-> 0]

target_hits(s, lots, n) ==
    IF n = 0 THEN [lots |-> lots, partial_exits |-> 0]
    ELSE LET r == on_target_hit(s, lots)
             exit_n == IF r.action = "partial_exit" /\ lots > 1
                       THEN Min(r.exit_lots, lots - 1) ELSE 0
             rest == target_hits(s, lots - exit_n, n - 1)
         IN  [lots |-> rest.lots, partial_exits |-> exit_n + rest.partial_exits]

MaxSpins == 2
MaxLevels == 3

\* a handler that keeps the lock when it leaves the with block
tick_lock_kept(returns) ==
    "feed"

\* lines 624-659: the with block gives the lock back when its body ends; a
\* while loop that never ends keeps it
tick_lock(returns) ==
    IF returns THEN "" ELSE "feed"

feed_tick(ltp) ==
    /\ At("feed", "idle")
    /\ feeds > 0
    /\ LockFree
    /\ IF ~HasPos
       THEN /\ state' = [state EXCEPT !.current_ltp = ltp]
            /\ UNCHANGED <<disk, engine, lock, fr>>
       ELSE IF never_ends(Pos, ltp, state.settings.target_points)
       THEN /\ state' = [state EXCEPT !.current_ltp = ltp]
            /\ lock' = tick_lock(FALSE)
            /\ Goto("feed", "spin")
            /\ UNCHANGED <<disk, engine>>
       ELSE LET r == trail(Pos, ltp, state.settings.sl_points, state.settings.target_points, 0)
                h == target_hits(engine.strategy, r.pos.remaining_lots, r.targets_crossed)
                pos == [r.pos EXCEPT !.remaining_lots = h.lots]
            IN  /\ state' = [state EXCEPT !.current_ltp = ltp, !.active_position = <<pos>>]
                /\ disk' = IF r.targets_crossed > 0 THEN state_to_dict(state') ELSE disk
                /\ engine' = [engine EXCEPT !.pending_partial_exits = @ + h.partial_exits]
                /\ fr' = IF r.targets_crossed > 0 /\ h.partial_exits = 0 /\ pos.sl_order_id # 0
                         THEN [fr EXCEPT !["feed"].pc = "tk_modify",
                                         !["feed"].sl_order_id = pos.sl_order_id,
                                         !["feed"].sl_price = pos.sl_price]
                         ELSE fr
                /\ lock' = tick_lock(TRUE)
    /\ UNCHANGED <<orders, clock, market, auth, feeds, history, obs>>

\* one more pass of a while loop that never ends; the lock stays held
feed_spin ==
    /\ At("feed", "spin")
    /\ obs.spins < MaxSpins
    /\ state' = [state EXCEPT !.active_position =
                     <<trail_once(Pos, state.settings.sl_points, state.settings.target_points)>>]
    /\ obs' = [obs EXCEPT !.spins = @ + 1]
    /\ UNCHANGED <<disk, engine, lock, fr, orders, clock, market, auth, feeds, history>>

\* _modify_sl_order, outside the tick's critical section (lines 663-664)
feed_modify(b) ==
    /\ At("feed", "tk_modify")
    /\ LockFree
    /\ LET id == fr["feed"].sl_order_id
       IN  \/ /\ HasPos
              /\ orders[id].status = "OPEN"
              /\ TRUE \in b.ok
              /\ orders' = [orders EXCEPT ![id].trigger = round_tick(fr["feed"].sl_price)]
           \/ /\ ~HasPos \/ orders[id].status # "OPEN" \/ Fails(b)
              /\ orders' = orders
    /\ fr' = [fr EXCEPT !["feed"] = Blank]
    /\ UNCHANGED <<state, disk, engine, lock, clock, market, auth, feeds, history, obs>>

----------------------------------------------------------------------------
(* _handle_order_update and _handle_sl_hit, run by the feed callback.      *)

\* the broker fills an open protective order; the update goes to the feeds
\* connected now
broker_fill_sl(id, b) ==
    /\ id \in 1..Len(orders)
    /\ orders[id].kind = "SL"
    /\ orders[id].status = "OPEN"
    /\ \E d \in b.slips :
         orders' = [orders EXCEPT ![id].status = "COMPLETE",
                                  ![id].average_price = orders[id].trigger + d,
                                  ![id].notified = (feeds = 0)]
    /\ UNCHANGED <<state, disk, engine, lock, fr, clock, market, auth, feeds, history, obs>>

\* lines 751-764: the COMPLETE update of order id is delivered
feed_order_update(id) ==
    /\ At("feed", "idle")
    /\ feeds > 0
    /\ LockFree
    /\ id \in 1..Len(orders)
    /\ orders[id].kind = "SL"
    /\ orders[id].status = "COMPLETE"
    /\ ~orders[id].notified
    /\ orders' = [orders EXCEPT ![id].notified = TRUE]
    /\ IF HasPos /\ Pos.sl_order_id = id
       THEN /\ engine' = [engine EXCEPT !.reversal_in_progress = TRUE]
            /\ fr' = [fr EXCEPT !["feed"].pc = "sl_hit",
                                !["feed"].exit_price = orders[id].average_price]
       ELSE UNCHANGED <<engine, fr>>
    /\ UNCHANGED <<state, disk, lock, clock, market, auth, feeds, history, obs>>

\* _handle_sl_hit, lines 553-557: the Position is looked at, under the lock
feed_sl_hit ==
    /\ At("feed", "sl_hit")
    /\ LockFree
    /\ IF ~HasPos
       THEN Goto("feed", "finally")
       ELSE fr' = [fr EXCEPT !["feed"].pc = "sl_close", !["feed"].direction = Pos.direction]
    /\ UNCHANGED <<state, disk, engine, lock, orders, clock, market, auth, feeds, history, obs>>

\* lines 559-569 and 586-587: _close_position at the fill price, then the
\* policy says what comes next
feed_sl_close ==
    /\ At("feed", "sl_close")
    /\ LockFree
    /\ LET x == fr["feed"].exit_price
           r == on_sl_hit(engine.strategy, state.strategy_data, fr["feed"].direction)
       IN  /\ state' = [close_position(state, x) EXCEPT !.strategy_data = r.data]
           /\ disk' = close_disk(state, x)
           /\ history' = close_history(state, x)
           /\ IF r.action = "reverse"
              THEN /\ engine' = [engine EXCEPT !.pending_direction = r.direction]
                   /\ fr' = [fr EXCEPT !["feed"] =
                               [Blank EXCEPT !.pc = "ep_place", !.ret = "finally",
                                             !.direction = r.direction]]
              ELSE IF r.action = "reselect_and_enter"
              THEN /\ fr' = [fr EXCEPT !["feed"] =
                               [Blank EXCEPT !.pc = "rs_stop", !.direction = r.direction]]
                   /\ UNCHANGED engine
              ELSE /\ Goto("feed", "finally")
                   /\ UNCHANGED engine
           /\ obs' = [obs EXCEPT !.policy_stopped = (r.action = "stop")]
    /\ UNCHANGED <<lock, orders, clock, market, auth, feeds>>

\* lines 573-577
feed_rs_stop ==
    /\ At("feed", "rs_stop")
    /\ LockFree
    /\ engine' = [engine EXCEPT !.ticker = ""]
    /\ feeds' = feeds_after_stop
    /\ orders' = orders_after_stop
    /\ state' = [state EXCEPT !.trading_symbol = "", !.instrument_token = 0]
    /\ disk' = state_to_dict(state')
    /\ Goto("feed", "rs_select")
    /\ UNCHANGED <<lock, clock, market, auth, history, obs>>

\* lines 578-580
feed_rs_select(b) ==
    /\ At("feed", "rs_select")
    /\ LockFree
    /\ \/ /\ Fails(b) \/ policy_select_instrument(market, state) = {}
          /\ Goto("feed", "finally")
          /\ UNCHANGED <<state, disk>>
       \/ /\ TRUE \in b.ok
          /\ \E chosen \in policy_select_instrument(market, state) :
               state' = select_instrument(state, chosen)
          /\ disk' = state_to_dict(state')
          /\ Goto("feed", "rs_ticker")
    /\ UNCHANGED <<engine, lock, orders, clock, market, auth, feeds, history, obs>>

\* lines 581-584
feed_rs_ticker ==
    /\ At("feed", "rs_ticker")
    /\ engine' = [engine EXCEPT !.ticker = ticker_after_start,
                                !.pending_direction = fr["feed"].direction]
    /\ feeds' = feeds_after_start
    /\ Call("feed", "ep_place", "finally")
    /\ UNCHANGED <<state, disk, lock, orders, clock, market, auth, history, obs>>

\* lines 767-768
feed_finally ==
    /\ At("feed", "finally")
    /\ engine' = [engine EXCEPT !.reversal_in_progress = FALSE]
    /\ fr' = [fr EXCEPT !["feed"] = Blank]
    /\ UNCHANGED <<state, disk, lock, orders, clock, market, auth, feeds, history, obs>>

----------------------------------------------------------------------------
(* The public API: stop(), start(), update_settings(), called from the     *)
(* dashboard's request threads.                                            *)

\* _get_fill_price waits up to 60 s, longer than stop()'s join of 15 s
FillWaits == {"ep_fill", "sq_fill", "pe_fill"}

\* line 1000
api_stop_begin ==
    /\ At("api", "idle")
    /\ obs.stops < MaxStops
    /\ engine' = [engine EXCEPT !.running = FALSE]
    /\ Goto("api", "st_join")
    /\ obs' = [obs EXCEPT !.stops = @ + 1]
    /\ UNCHANGED <<state, disk, lock, orders, clock, market, auth, feeds, history>>

\* lines 1002-1004: the join returns when the loop thread has ended, or
\* times out while the thread sits in a fill wait
api_stop_join ==
    /\ At("api", "st_join")
    /\ \/ engine.thread = ""
       \/ engine.thread # "" /\ fr[engine.thread].pc \in {"idle"} \cup FillWaits
    /\ engine' = [engine EXCEPT !.thread = ""]
    /\ Goto("api", "st_pos")
    /\ UNCHANGED <<state, disk, lock, orders, clock, market, auth, feeds, history, obs>>

\* lines 1006-1007
api_stop_pos ==
    /\ At("api", "st_pos")
    /\ IF HasPos THEN Call("api", "sq_begin", "st_fin") ELSE Goto("api", "st_fin")
    /\ UNCHANGED <<state, disk, engine, lock, orders, clock, market, auth, feeds, history, obs>>

\* lines 1009-1018; stop() returns
api_stop_fin ==
    /\ At("api", "st_fin")
    /\ LockFree
    /\ engine' = [engine EXCEPT !.ticker = ""]
    /\ feeds' = feeds_after_stop
    /\ state' = [SetStatus(state, "STOPPED", "Stopped by user")
                    EXCEPT !.settings.enabled = FALSE, !.trading_symbol = "",
                           !.instrument_token = 0]
    /\ disk' = state_to_dict(state')
    /\ orders' = orders_after_stop
    /\ fr' = [fr EXCEPT !["api"] = Blank]
    /\ obs' = [obs EXCEPT !.stop_returned = TRUE]
    /\ UNCHANGED <<lock, clock, market, auth, history>>

\* line 992: Thread(target=self._engine_loop) is a new thread whether or
\* not an earlier one is alive; it takes the first free slot
NewThread == IF At("loop", "idle") THEN "loop" ELSE "loop2"

\* start(), lines 979-995.  The model has one slot per loop thread: a new
\* thread starts when a slot is free.
api_start(t) ==
    /\ At("api", "idle")
    /\ ~engine.running
    /\ LockFree
    /\ t = NewThread
    /\ At(t, "idle")
    /\ engine' = [engine EXCEPT !.running = TRUE, !.pending_direction = "", !.thread = t]
    /\ state' = [state EXCEPT !.settings.enabled = TRUE, !.status_message = "Starting",
                               !.last_date = Today]
    /\ disk' = state_to_dict(state')
    /\ fr' = [fr EXCEPT ![t] = [Blank EXCEPT !.pc = "start"]]
    /\ obs' = [obs EXCEPT !.stop_returned = FALSE, !.recovery_closed = FALSE,
                           !.policy_stopped = FALSE]
    /\ UNCHANGED <<lock, orders, clock, market, auth, feeds, history>>

MaxConfigs == 2

\* the keys a request may carry; "lots" is no attribute of the settings
SettingKeys == {"sl_points", "quantity", "lots"}

\* the values a request may carry, after api_settings' float() and int()
SettingValues == {-3, 0, 1, 3, 4, 6}

\* lines 1025-1027: setattr for every key that is an attribute
set_attrs(settings, kwargs) ==
    [k \in DOMAIN settings |-> IF k \in DOMAIN kwargs THEN kwargs[k] ELSE settings[k]]

\* update_settings(**kwargs): any value is stored; only the lot count is
\* corrected, once, after all keys are stored
update_settings(kwargs) ==
    /\ LockFree
    /\ obs.configs < MaxConfigs
    /\ state' = [state EXCEPT !.settings =
                     [set_attrs(@, kwargs) EXCEPT !.quantity =
                         corrected_quantity(@, lot_multiplier(engine.strategy))]]
    /\ disk' = state_to_dict(state')
    /\ obs' = [obs EXCEPT !.configs = @ + 1, !.error = ""]
    /\ UNCHANGED <<engine, lock, fr, orders, clock, market, auth, feeds, history>>

\* the names a request may carry: the registered ones and one that is not
StrategyNames == Strategies \cup {"unknown"}

\* switch_strategy(name), lines 198-208; obs.error is what it raised
switch_strategy(name) ==
    /\ obs.configs < MaxConfigs
    /\ IF engine.running
       THEN /\ obs' = [obs EXCEPT !.configs = @ + 1, !.error = "RuntimeError"]
            /\ UNCHANGED <<state, disk, engine>>
       ELSE IF name \notin Strategies
       THEN /\ obs' = [obs EXCEPT !.configs = @ + 1, !.error = "ValueError"]
            /\ UNCHANGED <<state, disk, engine>>
       ELSE /\ LockFree
            /\ engine' = [engine EXCEPT !.strategy = name]
            /\ state' = [state EXCEPT !.strategy_name = name, !.strategy_data = ""]
            /\ disk' = state_to_dict(state')
            /\ obs' = [obs EXCEPT !.configs = @ + 1, !.error = ""]
    /\ UNCHANGED <<lock, fr, orders, clock, market, auth, feeds, history>>

----------------------------------------------------------------------------
(* The environment: time of day, and the web login (web_app.py).           *)

advance_clock ==
    /\ clock < DayEnd
    /\ clock' = clock + 1
    /\ UNCHANGED <<state, disk, engine, lock, fr, orders, market, auth, feeds, history, obs>>

client_login ==
    /\ ~auth
    /\ auth' = TRUE
    /\ UNCHANGED <<state, disk, engine, lock, fr, orders, clock, market, feeds, history, obs>>

----------------------------------------------------------------------------
(* The specification: every context of the engine, interleaved.            *)

\* The life cycle of the engine: the control loop, the order updates of the
\* feed, start() and stop(), the clock and the login, interleaved.  The
\* broker fills at one price and refuses an order only when its book is
\* full; no price tick arrives.
Broker == [prices |-> {EntryPrice0}, slips |-> {0}, ok |-> {TRUE}, book |-> MaxOrders]

Loop(t, b) ==
    \/ loop_start(t)
    \/ loop_recover(t)
    \/ loop_rec_hist(t, b)
    \/ loop_top(t)
    \/ loop_eod(t)
    \/ loop_eod2(t)
    \/ loop_select(t, b)
    \/ loop_ticker(t)
    \/ loop_pexit(t)
    \/ loop_chk_pos(t)
    \/ loop_chk_rev(t)
    \/ loop_post_entry(t)
    \/ loop_exit(t)

Enter(c, b) ==
    \/ ep_place(c, b)
    \/ ep_fill(c, b)
    \/ ep_sl(c, b)
    \/ ep_record(c)

SquareOff(c, b) ==
    \/ sq_begin(c, b)
    \/ sq_fill(c, b)

PartialExit(t, b) ==
    \/ pe_begin(t)
    \/ pe_cancel(t)
    \/ pe_place(t, b)
    \/ pe_restore(t)
    \/ pe_fill(t, b)
    \/ pe_record(t)
    \/ pe_sl(t, b)
    \/ pe_update(t)

Ticks(ticks, b) ==
    \/ \E ltp \in ticks : feed_tick(ltp)
    \/ feed_modify(b)

OrderUpdates(b) ==
    \/ \E id \in 1..MaxOrders : broker_fill_sl(id, b)
    \/ \E id \in 1..MaxOrders : feed_order_update(id)
    \/ feed_sl_hit
    \/ feed_sl_close
    \/ feed_rs_stop
    \/ feed_rs_select(b)
    \/ feed_rs_ticker
    \/ feed_finally

Stop ==
    \/ api_stop_begin
    \/ api_stop_join
    \/ api_stop_pos
    \/ api_stop_fin

Start == \E t \in Loops : api_start(t)

Env ==
    \/ advance_clock
    \/ client_login

Next ==
    \/ \E t \in Loops : Loop(t, Broker)
    \/ \E c \in Ctx : Enter(c, Broker)
    \/ \E c \in Ctx : SquareOff(c, Broker)
    \/ OrderUpdates(Broker)
    \/ Start
    \/ Stop
    \/ Env

Spec == Init /\ [][Next]_vars

----------------------------------------------------------------------------
(* Trading: one day's session at trading time with a valid login, under    *)
(* the settings the dashboard left in the state file.  Fills come at       *)
(* prices on and off the tick grid, the broker refuses an order only when  *)
(* its book is full, ticks arrive beyond the first and the second target.  *)
(* stop() is not called.                                                   *)

SlPoints == {DEFAULT_POINTS, 7}
TargetPoints == {DEFAULT_POINTS, 2}

TradeBroker == [prices |-> {EntryPrice0, EntryPrice0 + 2}, slips |-> {5},
                ok |-> {TRUE}, book |-> MaxTradeOrders]

TradeTicks == {EntryPrice0 - DEFAULT_POINTS - 500, EntryPrice0 + 2 * DEFAULT_POINTS}

InitTrade ==
    /\ InitCommon
    /\ clock = START_TIME
    /\ auth
    /\ orders = <<>>
    /\ \E s \in Strategies, sp \in SlPoints, tp \in TargetPoints :
         /\ engine = Engine0(s)
         /\ disk = state_to_dict([FreshState(s) EXCEPT !.settings.sl_points = sp,
                                                        !.settings.target_points = tp])
    /\ state = load_state(disk, Today)

LoopTrade(t, b) ==
    \/ loop_start(t)
    \/ loop_recover(t)
    \/ loop_top(t)
    \/ loop_select(t, b)
    \/ loop_ticker(t)
    \/ loop_pexit(t)
    \/ loop_chk_pos(t)
    \/ loop_chk_rev(t)
    \/ loop_post_entry(t)
    \/ loop_exit(t)

NextTrade ==
    \/ \E t \in Loops : LoopTrade(t, TradeBroker)
    \/ \E c \in Ctx : Enter(c, TradeBroker)
    \/ \E t \in Loops : PartialExit(t, TradeBroker)
    \/ Ticks(TradeTicks, TradeBroker)
    \/ feed_spin
    \/ OrderUpdates(TradeBroker)
    \/ Start

SpecTrade == InitTrade /\ [][NextTrade]_vars

----------------------------------------------------------------------------
(* An unreliable broker: the same session with the default settings, where *)
(* any call to the broker may fail.  No price tick arrives.                *)

FailingBroker == [prices |-> {EntryPrice0}, slips |-> {0}, ok |-> BOOLEAN,
                  book |-> MaxBrokerOrders]

InitBroker ==
    /\ InitCommon
    /\ clock = START_TIME
    /\ auth
    /\ orders = <<>>
    /\ \E s \in Strategies :
         /\ engine = Engine0(s)
         /\ disk = state_to_dict(FreshState(s))
    /\ state = load_state(disk, Today)

NextBroker ==
    \/ \E t \in Loops : LoopTrade(t, FailingBroker)
    \/ \E c \in Ctx : Enter(c, FailingBroker)
    \/ OrderUpdates(FailingBroker)
    \/ Start

SpecBroker == InitBroker /\ [][NextBroker]_vars

----------------------------------------------------------------------------
(* Scaling out: the same session under the buy_scale_out policy with the   *)
(* default settings; ticks arrive at the second and at the third target.   *)

MaxScaleOutOrders == 6

ScaleOutBroker == [prices |-> {EntryPrice0}, slips |-> {5}, ok |-> {TRUE},
                   book |-> MaxScaleOutOrders]

ScaleOutTicks == {EntryPrice0 + 2 * DEFAULT_POINTS, EntryPrice0 + 3 * DEFAULT_POINTS}

InitScaleOut ==
    /\ InitCommon
    /\ clock = START_TIME
    /\ auth
    /\ orders = <<>>
    /\ engine = Engine0("buy_scale_out")
    /\ disk = state_to_dict(FreshState("buy_scale_out"))
    /\ state = load_state(disk, Today)

NextScaleOut ==
    \/ \E t \in Loops : LoopTrade(t, ScaleOutBroker)
    \/ \E c \in Ctx : Enter(c, ScaleOutBroker)
    \/ \E t \in Loops : PartialExit(t, ScaleOutBroker)
    \/ Ticks(ScaleOutTicks, ScaleOutBroker)
    \/ OrderUpdates(ScaleOutBroker)
    \/ Start

SpecScaleOut == InitScaleOut /\ [][NextScaleOut]_vars

----------------------------------------------------------------------------
(* A policy that stops: the session of a reliable broker under             *)
(* buy_alternate or under a policy whose on_sl_hit returns stop.           *)

MaxStopOrders == 5

StopBroker == [prices |-> {EntryPrice0}, slips |-> {0}, ok |-> {TRUE}, book |-> MaxStopOrders]

InitStop ==
    /\ InitCommon
    /\ clock = START_TIME
    /\ auth
    /\ orders = <<>>
    /\ \E s \in {"buy_alternate", StopPolicy} :
         /\ engine = Engine0(s)
         /\ disk = state_to_dict(FreshState(s))
    /\ state = load_state(disk, Today)

NextStop ==
    \/ \E t \in Loops : LoopTrade(t, StopBroker)
    \/ \E c \in Ctx : Enter(c, StopBroker)
    \/ OrderUpdates(StopBroker)
    \/ Start

SpecStop == InitStop /\ [][NextStop]_vars

----------------------------------------------------------------------------
(* Reversals: the sar policy inside the trading window with a valid login, *)
(* started fresh or after a crash, with stop() and start() and a book of   *)
(* six orders.                                                             *)

MaxReverseOrders == 6

ReverseBroker == [prices |-> {EntryPrice0}, slips |-> {0}, ok |-> {TRUE},
                  book |-> MaxReverseOrders]

InitReverse ==
    /\ InitCommon
    /\ clock = START_TIME
    /\ auth
    /\ engine = Engine0("sar")
    /\ \/ disk = state_to_dict(FreshState("sar")) /\ orders = <<>>
       \/ \E st \in {"OPEN", "COMPLETE"} :
            /\ disk = state_to_dict(CrashedState("sar"))
            /\ orders = CrashedOrders("sar", st)
    /\ state = load_state(disk, Today)

NextReverse ==
    \/ \E t \in Loops : LoopTrade(t, ReverseBroker)
    \/ \E t \in Loops : loop_rec_hist(t, ReverseBroker)
    \/ \E c \in Ctx : Enter(c, ReverseBroker)
    \/ \E c \in Ctx : SquareOff(c, ReverseBroker)
    \/ \E id \in 1..MaxReverseOrders : broker_fill_sl(id, ReverseBroker)
    \/ \E id \in 1..MaxReverseOrders : feed_order_update(id)
    \/ feed_sl_hit
    \/ feed_sl_close
    \/ feed_finally
    \/ Start
    \/ Stop

SpecReverse == InitReverse /\ [][NextReverse]_vars

----------------------------------------------------------------------------
(* The settings alone: an engine that is never started, and requests that  *)
(* store settings and switch the policy.                                   *)

Requests == UNION {[keys -> SettingValues] : keys \in SUBSET SettingKeys}

ApiSettings == \E kwargs \in Requests : update_settings(kwargs)

ApiSwitchStrategy == \E name \in StrategyNames : switch_strategy(name)

InitSettings ==
    /\ InitCommon
    /\ \E s \in Strategies :
         /\ engine = Engine0(s)
         /\ disk = state_to_dict(FreshState(s))
    /\ orders = <<>>
    /\ state = load_state(disk, Today)

NextSettings ==
    \/ ApiSettings
    \/ ApiSwitchStrategy

SpecSettings == InitSettings /\ [][NextSettings]_vars

----------------------------------------------------------------------------
(* The life cycle with the dashboard's configuration requests: the control *)
(* loop, start() and stop(), the clock and the login, and requests that    *)
(* set the lot count or switch the policy.  The broker is reliable; no     *)
(* tick and no order update arrives.                                       *)

ConfigQuantities == {1, 4}

Configure ==
    \/ \E q \in ConfigQuantities : update_settings([k \in {"quantity"} |-> q])
    \/ ApiSwitchStrategy

NextConfig ==
    \/ \E t \in Loops : Loop(t, Broker)
    \/ \E c \in Ctx : Enter(c, Broker)
    \/ \E c \in Ctx : SquareOff(c, Broker)
    \/ Start
    \/ Stop
    \/ Env
    \/ Configure

SpecConfig == Init /\ [][NextConfig]_vars

----------------------------------------------------------------------------
(* Persistence alone: the state files a process may find, the constructor  *)
(* that loads one, and _save_state.                                        *)

Dates == {"yesterday", Today}

\* the trades of a day: none, one, or two
Ledgers(s) ==
    LET t1 == close_trade(CrashedState(s), EntryPrice0 + DEFAULT_POINTS)
        t2 == close_trade(CrashedState(s), EntryPrice0 - DEFAULT_POINTS)
    IN  {<<>>, <<t1>>, <<t1, t2>>}

ledger_pnl(l) ==
    IF Len(l) = 0 THEN 0 ELSE IF Len(l) = 1 THEN l[1].pnl ELSE l[1].pnl + l[2].pnl

\* the states a process may have saved: with or without a Position, with
\* a list of trades, with scratch data, dated today or before
PersistStatesOf(s) ==
    { [CrashedState(s) EXCEPT !.last_date = d, !.active_position = p, !.trades_today = l,
                              !.total_pnl = ledger_pnl(l), !.strategy_data = sd] :
        d \in Dates, p \in {<<>>, <<PersistedPosition(s)>>},
        l \in Ledgers(s), sd \in {"", "CE", "PE"} }

PersistStates == UNION {PersistStatesOf(s) : s \in Strategies}

\* _set_strategy(name): an unknown name falls back to sar
set_strategy(name) == IF name \in Strategies THEN name ELSE "sar"

MaxLoads == 2

\* __init__ of a new process: _load_state, _set_strategy
construct ==
    /\ obs.loads < MaxLoads
    /\ state' = load_state(disk, Today)
    /\ engine' = Engine0(set_strategy(state'.strategy_name))
    /\ obs' = [obs EXCEPT !.loads = @ + 1]
    /\ UNCHANGED <<disk, lock, fr, orders, clock, market, auth, feeds, history>>

\* _save_state
save_state ==
    /\ disk' = state_to_dict(state)
    /\ UNCHANGED <<state, engine, lock, fr, orders, clock, market, auth, feeds, history, obs>>

InitPersist ==
    /\ lock = ""
    /\ market = DefaultMarket
    /\ fr = [c \in Ctx |-> Blank]
    /\ clock = 0
    /\ auth = FALSE
    /\ feeds = 0
    /\ history = <<>>
    /\ obs = Obs0
    /\ orders = <<>>
    /\ state \in PersistStates
    /\ engine = Engine0(set_strategy(state.strategy_name))
    /\ disk = state_to_dict(state)

NextPersist ==
    \/ construct
    \/ save_state

SpecPersist == InitPersist /\ [][NextPersist]_vars

----------------------------------------------------------------------------------------------------------------------------------------
(* Instrument selection over markets that list weekly and monthly NIFTY    *)
(* contracts, contracts that expire too early, the other option type and   *)
(* another underlying, at last prices near the target premium, far from    *)
(* it, and zero.                                                           *)

SelectUniverse ==
    {Instrument("NIFTY", "CE", 25, 1, "NIFTY25CE1", 11, LotSize),
     Instrument("NIFTY", "CE", 35, 1, "NIFTY35CE1", 12, LotSize),
     Instrument("NIFTY", "CE", 55, 1, "NIFTY55CE1", 13, LotSize),
     Instrument("NIFTY", "CE", 55, 2, "NIFTY55CE2", 14, LotSize),
     Instrument("NIFTY", "CE", 85, 1, "NIFTY85CE1", 15, LotSize),
     Instrument("NIFTY", "PE", 58, 2, "NIFTY58PE2", 16, LotSize),
     Instrument("BANKNIFTY", "CE", 58, 1, "BANKNIFTY58CE1", 17, LotSize)}

SelectStrikes == {i.strike : i \in SelectUniverse}
SelectPrices == {0, 900, 1100, 1300}
SelectDays == {0, 30}

\* every contract of a strike trades at the price q gives the strike
QuotesOf(q) ==
    [sym \in {i.tradingsymbol : i \in SelectUniverse} |->
        q[(CHOOSE i \in SelectUniverse : i.tradingsymbol = sym).strike]]

SelectMarkets ==
    {[instruments |-> is, ltp |-> QuotesOf(q), today |-> d] :
        is \in SUBSET SelectUniverse, q \in [SelectStrikes -> SelectPrices], d \in SelectDays}

SelectBroker == [prices |-> {EntryPrice0}, slips |-> {0}, ok |-> {TRUE}, book |-> 0]

InitSelect ==
    /\ InitEngine
    /\ market \in SelectMarkets
    /\ clock = START_TIME
    /\ auth
    /\ orders = <<>>
    /\ \E s \in {"sar", "buy_alternate"}, data \in {"", "PE"} :
         /\ s = "sar" => data = ""
         /\ engine = Engine0(s)
         /\ disk = state_to_dict([FreshState(s) EXCEPT !.strategy_data = data])
    /\ state = load_state(disk, Today)

LoopSelect(t, b) ==
    \/ loop_start(t)
    \/ loop_recover(t)
    \/ loop_top(t)
    \/ loop_select(t, b)
    \/ loop_ticker(t)
    \/ loop_exit(t)

NextSelect ==
    \/ \E t \in Loops : LoopSelect(t, SelectBroker)
    \/ Start
    \/ Stop

SpecSelect == InitSelect /\ [][NextSelect]_vars

----------------------------------------------------------------------------
(* Scaling out with a broker that may refuse an order or leave it unfilled. *)

MaxPartialOrders == 5

PartialBroker == [prices |-> {EntryPrice0, EntryPrice0 + 100}, slips |-> {5}, ok |-> BOOLEAN,
                  book |-> MaxPartialOrders]

NextPartial ==
    \/ \E t \in Loops : LoopTrade(t, PartialBroker)
    \/ \E c \in Ctx : Enter(c, PartialBroker)
    \/ \E t \in Loops : PartialExit(t, PartialBroker)
    \/ Ticks(ScaleOutTicks, PartialBroker)
    \/ Start

SpecPartial == InitScaleOut /\ [][NextPartial]_vars

----------------------------------------------------------------------------
(* Scaling out under a policy that asks for more lots than are held, with  *)
(* a broker that may refuse an order or leave it unfilled.                 *)

MaxGreedyOrders == 5

GreedyBroker == [prices |-> {EntryPrice0}, slips |-> {5}, ok |-> BOOLEAN,
                 book |-> MaxGreedyOrders]

InitGreedy ==
    /\ InitCommon
    /\ clock = START_TIME
    /\ auth
    /\ orders = <<>>
    /\ engine = Engine0(GreedyPolicy)
    /\ disk = state_to_dict(FreshState(GreedyPolicy))
    /\ state = load_state(disk, Today)

NextGreedy ==
    \/ \E t \in Loops : LoopTrade(t, GreedyBroker)
    \/ \E c \in Ctx : Enter(c, GreedyBroker)
    \/ \E t \in Loops : PartialExit(t, GreedyBroker)
    \/ Ticks(ScaleOutTicks, GreedyBroker)
    \/ Start

SpecGreedy == InitGreedy /\ [][NextGreedy]_vars

----------------------------------------------------------------------------
(* Square-off at the end of the day and on stop(), with a broker that may  *)
(* refuse the closing order or leave it unfilled.                          *)

MaxSquareOffOrders == 4

SquareOffBroker == [prices |-> {EntryPrice0 + 100}, slips |-> {0}, ok |-> BOOLEAN,
                    book |-> MaxSquareOffOrders]

LoopDay(t, b) ==
    \/ LoopTrade(t, b)
    \/ loop_eod(t)
    \/ loop_eod2(t)

NextSquareOff ==
    \/ \E t \in Loops : LoopDay(t, SquareOffBroker)
    \/ \E c \in Ctx : Enter(c, SquareOffBroker)
    \/ \E c \in Ctx : SquareOff(c, SquareOffBroker)
    \/ Start
    \/ Stop
    \/ advance_clock

SpecSquareOff == InitBroker /\ [][NextSquareOff]_vars

----------------
(* Properties.                                                             *)

\* the part of _enter_position after its entry order was placed
InFlight == {"ep_fill", "ep_sl", "ep_record"}

\* C1: an entry order is placed by _enter_position only while no Position is
\* recorded and no other context's entry is in flight.
C1_EntryOnlyWhenFlat ==
    [][\A c \in Ctx :
          (At(c, "ep_place") /\ fr'[c].pc = "ep_fill")
              => (~HasPos /\ \A d \in Ctx \ {c} : fr[d].pc \notin InFlight)]_vars

\* C3: from the return of stop() to the next start(), engine_status is
\* STOPPED and no Position is recorded.
C3_StoppedStaysFlat ==
    obs.stop_returned => (state.engine_status = "STOPPED" /\ ~HasPos)

\* C5: whenever engine_status is MARKET_CLOSED no Position is recorded.
C5_ClosedIsFlat ==
    state.engine_status = "MARKET_CLOSED" => ~HasPos

InWindow == clock >= state.settings.start_time /\ clock < state.settings.stop_time

Leaves(c, p) == At(c, p) /\ fr'[c].pc # p

\* C2: a Position is recorded only with a protective order of the entry's
\* quantity, whose id it stores; and when the protective order cannot be
\* placed after the fill, no Position is recorded and a closing order of the
\* entry's quantity in the opposite direction is submitted.
C2_ProtectedOrFlattened ==
    [][\A c \in Ctx :
          /\ Leaves(c, "ep_record") =>
                /\ HasPos'
                /\ state'.active_position[1].sl_order_id = fr[c].sl_order_id
                /\ orders[fr[c].sl_order_id].kind = "SL"
                /\ orders[fr[c].sl_order_id].qty = orders[fr[c].order_id].qty
          /\ (Leaves(c, "ep_sl") /\ fr'[c].pc # "ep_record") =>
                /\ state'.active_position = state.active_position
                /\ Len(orders') = Len(orders) + 1
                /\ orders'[Len(orders')].side = Opposite(fr[c].direction)
                /\ orders'[Len(orders')].qty = orders[fr[c].order_id].qty]_vars

\* C6: the loop places no entry order after 5 consecutive failed entries but
\* sets STOPPED with the entry-failure message, and an entry that recorded
\* a Position resets its failure count to 0.
C6_FiveFailuresStop ==
    [][\A t \in Loops :
          /\ (At(t, "ep_place") /\ fr'[t].pc = "ep_fill")
                => obs.failed_entries < ENTRY_FAILURE_LIMIT
          /\ (Leaves(t, "chk_rev") /\ obs.failed_entries >= ENTRY_FAILURE_LIMIT
                 /\ ~engine.reversal_in_progress)
                => (state'.engine_status = "STOPPED"
                    /\ state'.status_message = "Entry failed 5 times")
          /\ (Leaves(t, "post_entry") /\ obs.failed_entries = 0)
                => fr'[t].entry_failures = 0]_vars

\* the Position stays the one it was
SamePosition ==
    HasPos /\ HasPos' /\ state'.active_position[1].order_id = Pos.order_id

\* the prices of a Position move by k point distances sp and tp ...
MovedBy(pos, new, k, sp, tp) ==
    IF pos.direction = "SELL"
    THEN new.target_price = pos.target_price - k * tp /\ new.sl_price = pos.sl_price - k * sp
    ELSE new.target_price = pos.target_price + k * tp /\ new.sl_price = pos.sl_price + k * sp

\* ... and never against the Position
Favourable(pos, new) ==
    IF pos.direction = "SELL"
    THEN new.target_price <= pos.target_price /\ new.sl_price <= pos.sl_price
    ELSE new.target_price >= pos.target_price /\ new.sl_price >= pos.sl_price

\* C7 as the specification states it: with positive point distances, the
\* target and the stop-loss of a Position move only in its favour, and both
\* by the same number k of point distances (k target_points, k sl_points).
C7_MovesByPoints ==
    [][(SamePosition /\ state.settings.sl_points > 0 /\ state.settings.target_points > 0) =>
          /\ Favourable(Pos, state'.active_position[1])
          /\ \E k \in 0..MaxLevels :
                MovedBy(Pos, state'.active_position[1], k,
                        state.settings.sl_points, state.settings.target_points)]_vars

\* C7, amended: with positive point distances, the target and the stop-loss
\* of a Position move only in its favour, and both by the same number k of
\* steps, a step being the point distance rounded to the tick.
C7_MovesByRoundedPoints ==
    [][(SamePosition /\ state.settings.sl_points > 0 /\ state.settings.target_points > 0) =>
          /\ Favourable(Pos, state'.active_position[1])
          /\ \E k \in 0..MaxLevels :
                MovedBy(Pos, state'.active_position[1], k,
                        round_tick(state.settings.sl_points),
                        round_tick(state.settings.target_points))]_vars

C7_Witness ==
    /\ HasPos
    /\ state.settings.sl_points % TICK # 0
    /\ state.settings.target_points > TICK
    /\ Pos.target_price # entry_target_price(Pos.direction, Pos.entry_price,
                                             state.settings.target_points)

\* C8 as the specification states it: the Position recorded for a fill at p
\* has stop-loss p + sl_points and target p - target_points for SELL, the
\* signs exchanged for BUY, and the configured lot count.
C8_ExactOffsets ==
    [][\A c \in Ctx :
          Leaves(c, "ep_record") =>
             LET p == fr[c].fill_price
                 sp == state.settings.sl_points
                 tp == state.settings.target_points
                 new == state'.active_position[1]
             IN  /\ new.direction = fr[c].direction /\ new.entry_price = p
                 /\ new.remaining_lots = state.settings.quantity
                 /\ IF new.direction = "SELL"
                    THEN new.sl_price = p + sp /\ new.target_price = p - tp
                    ELSE new.sl_price = p - sp /\ new.target_price = p + tp]_vars

\* y is the multiple of the tick nearest to x
NearestTick(y, x) == y % TICK = 0 /\ 2 * (y - x) < TICK /\ 2 * (x - y) < TICK

\* C8, amended: the Position recorded for a fill at p has as stop-loss and
\* target the ticks nearest to p + sl_points and p - target_points for SELL,
\* the signs exchanged for BUY, and the configured lot count.
C8_RoundedOffsets ==
    [][\A c \in Ctx :
          Leaves(c, "ep_record") =>
             LET p == fr[c].fill_price
                 sp == state.settings.sl_points
                 tp == state.settings.target_points
                 new == state'.active_position[1]
             IN  /\ new.direction = fr[c].direction /\ new.entry_price = p
                 /\ new.remaining_lots = state.settings.quantity
                 /\ IF new.direction = "SELL"
                    THEN NearestTick(new.sl_price, p + sp) /\ NearestTick(new.target_price, p - tp)
                    ELSE NearestTick(new.sl_price, p - sp) /\ NearestTick(new.target_price, p + tp)]_vars

C8_Witness ==
    /\ HasPos
    /\ Pos.entry_price % TICK # 0
    /\ state.settings.sl_points % TICK # 0
    /\ Pos.target_price = entry_target_price(Pos.direction, Pos.entry_price,
                                             state.settings.target_points)

\* a step of _handle_tick on an open Position: the feed callback was idle,
\* no other context moves, only the last price and the Position may change
TickStep ==
    /\ At("feed", "idle") /\ HasPos /\ HasPos'
    /\ \A c \in Ctx \ {"feed"} : fr'[c] = fr[c]
    /\ orders' = orders
    /\ state' = [state EXCEPT !.current_ltp = state'.current_ltp,
                              !.active_position = state'.active_position]
    /\ (state' # state \/ fr' # fr)

\* C9: a tick that has crossed the target leaves the new target strictly
\* beyond the tick price, and a tick that has not reached the target changes
\* neither price and modifies no order.
C9_TargetBeyondTick ==
    [][TickStep =>
          IF crossed(Pos, state'.current_ltp)
          THEN ~crossed(state'.active_position[1], state'.current_ltp)
          ELSE state'.active_position = state.active_position /\ At("feed", "idle")']_vars

\* C10: the stop-loss handler closes the Position at the fill price x of the
\* protective order: one TradeRecord with the profit (entry - x) or
\* (x - entry) times remaining_lots times lot_size and with quantity
\* remaining_lots is appended to today's trades and to the ledger, total_pnl
\* grows by that profit, and the Position is cleared.
C10_StopLossClose ==
    [][/\ (Leaves("feed", "idle") /\ fr'["feed"].pc = "sl_hit")
             => fr'["feed"].exit_price = orders[Pos.sl_order_id].average_price
       /\ (Leaves("feed", "sl_close") /\ HasPos) =>
             LET x == fr["feed"].exit_price
                 pnl == IF Pos.direction = "SELL"
                        THEN (Pos.entry_price - x) * Pos.remaining_lots * state.lot_size
                        ELSE (x - Pos.entry_price) * Pos.remaining_lots * state.lot_size
                 n == Len(state.trades_today)
                 trade == state'.trades_today[n + 1]
             IN  /\ ~HasPos'
                 /\ Len(state'.trades_today) = n + 1
                 /\ SubSeq(state'.trades_today, 1, n) = state.trades_today
                 /\ trade.pnl = pnl /\ trade.quantity = Pos.remaining_lots
                 /\ trade.exit_price = x /\ trade.entry_price = Pos.entry_price
                 /\ trade.direction = Pos.direction
                 /\ history' = Append(history, trade)
                 /\ state'.total_pnl = state.total_pnl + pnl]_vars

C10_Witness ==
    /\ ~HasPos
    /\ At("feed", "rs_stop")
    /\ Len(state.trades_today) > 1
    /\ state.trades_today[Len(state.trades_today)].entry_time = "entry"
    /\ state.trades_today[Len(state.trades_today)].quantity < state.settings.quantity

\* C11: under the sar policy the stop-loss handler, having closed a Position
\* of direction d, enters in the direction opposite to d on the same
\* instrument; the policy answers reverse, never stop.
C11_SarReverses ==
    [][(Leaves("feed", "sl_close") /\ engine.strategy = "sar" /\ HasPos) =>
          /\ on_sl_hit("sar", state.strategy_data, Pos.direction).action = "reverse"
          /\ ~HasPos'
          /\ fr'["feed"].pc = "ep_place"
          /\ fr'["feed"].direction = Opposite(Pos.direction)
          /\ state'.trading_symbol = state.trading_symbol]_vars

\* the target levels a step has moved the Position's target by
LevelsCrossed ==
    (state'.active_position[1].target_price - Pos.target_price)
        \div round_tick(state.settings.target_points)

\* C12: under buy_scale_out the policy answers partial_exit of 1 lot for 3
\* and for 2 remaining lots and trail for 1; a tick that crosses k target
\* levels takes one lot per level while more than one lot remains, so 3 lots
\* become 1 after two levels, and 1 lot stays 1.
C12_OneLotPerLevel ==
    [][(TickStep /\ engine.strategy = "buy_scale_out") =>
          LET lots == Pos.remaining_lots
              new == state'.active_position[1].remaining_lots
              k == LevelsCrossed
          IN  /\ on_target_hit("buy_scale_out", 3) = [action |-> "partial_exit", exit_lots |-> 1]
              /\ on_target_hit("buy_scale_out", 2) = [action |-> "partial_exit", exit_lots |-> 1]
              /\ on_target_hit("buy_scale_out", 1).action = "trail"
              /\ new = IF lots <= 1 THEN lots
                       ELSE IF lots - k >= 1 THEN lots - k ELSE 1
              /\ engine'.pending_partial_exits = engine.pending_partial_exits + (lots - new)
              /\ (lots = 3 /\ k >= 2) => new = 1]_vars

C12_Witness ==
    /\ engine.strategy = "buy_scale_out"
    /\ HasPos
    /\ Pos.remaining_lots = 1
    /\ Pos.target_price = Pos.entry_price + 4 * DEFAULT_POINTS
    /\ Len(state.trades_today) = 2

\* C13: after any update_settings call, with any combination of keys and
\* values, the lot count is at least the active policy's lot_multiplier and
\* a multiple of it.
C13_QuantityCorrected ==
    [][ApiSettings =>
          /\ state'.settings.quantity >= lot_multiplier(engine.strategy)
          /\ state'.settings.quantity % lot_multiplier(engine.strategy) = 0]_vars

\* one request under Scale-Out-Buy stored sl_points = 4 and left 3 lots
C13_Witness ==
    /\ engine.strategy = "buy_scale_out"
    /\ obs.configs = 1
    /\ state.settings.sl_points = 4
    /\ state.settings.quantity = 3

\* C14: whenever a Position is entered, after any sequence of start, stop,
\* update_settings, switch_strategy and loop exits, the configured lot
\* count is a positive multiple of the active policy's lot_multiplier.
C14_LotsAtEntry ==
    [][(\E c \in Ctx : Leaves(c, "ep_record")) =>
          /\ state.settings.quantity > 0
          /\ state.settings.quantity % lot_multiplier(engine.strategy) = 0]_vars

\* C15: for every EngineState, with or without a Position, with any list
\* of trades and any scratch data, _state_from_dict(_state_to_dict(s))
\* equals s field by field.
C15_RoundTrip ==
    /\ DOMAIN state_from_dict(state_to_dict(state)) = DOMAIN state
    /\ \A f \in DOMAIN state : state_from_dict(state_to_dict(state))[f] = state[f]

\* a state with a Position, two trades and scratch data, written and read
C15_Witness ==
    /\ HasPos
    /\ Len(state.trades_today) = 2
    /\ state.strategy_data = "PE"
    /\ state.last_date = "yesterday"
    /\ disk = state_to_dict(state)
    /\ state_from_dict(disk) = state

\* the fields a new day clears, and the fields it keeps
DayFields == {"trades_today", "total_pnl", "active_position", "trading_symbol",
              "instrument_token", "strategy_data"}
KeptFields == {"settings", "lot_size", "strategy_name"}

\* C16: loading a persisted state whose last_date differs from today gives
\* empty trades, zero P&L, no Position, no symbol or instrument id and empty
\* scratch data, with settings, lot_size and strategy_name unchanged;
\* loading a state dated today changes none of these fields; the rollover
\* applied twice gives what it gives applied once.
C16_DayRollover ==
    [][obs'.loads = obs.loads + 1 =>
          LET old == state_from_dict(disk)
              new == state'
          IN  /\ old.last_date # Today =>
                    /\ new.trades_today = <<>>
                    /\ new.total_pnl = 0
                    /\ new.active_position = <<>>
                    /\ new.trading_symbol = ""
                    /\ new.instrument_token = 0
                    /\ new.strategy_data = ""
              /\ old.last_date = Today => \A f \in DayFields : new[f] = old[f]
              /\ \A f \in KeptFields : new[f] = old[f]
              /\ rollover(new, Today) = new]_vars

\* a file of yesterday with a Position and trades was loaded
C16_Witness ==
    /\ obs.loads = 1
    /\ disk.last_date = "yesterday"
    /\ Truthy(disk.active_position)
    /\ Len(disk.trades_today) = 2
    /\ state.last_date = Today
    /\ ~HasPos
    /\ state.lot_size = LotSize

\* a control loop is running: its thread has started and has not ended
LoopAlive == \E t \in Loops : ~At(t, "idle")

\* the first sentence of C17: what one call of switch_strategy does
C17_SwitchContract ==
    [][\A name \in StrategyNames :
          switch_strategy(name) =>
             IF engine.running \/ name \notin Strategies
             THEN /\ obs'.error # ""
                  /\ engine'.strategy = engine.strategy
                  /\ state'.strategy_name = state.strategy_name
                  /\ state'.strategy_data = state.strategy_data
             ELSE /\ obs'.error = ""
                  /\ engine'.strategy = name
                  /\ state'.strategy_name = name
                  /\ state'.strategy_data = ""]_vars

\* C17: switch_strategy(name) fails with an error and leaves the policy,
\* strategy_name and the scratch data unchanged when the engine is running
\* or the name is not registered, and otherwise installs the policy, sets
\* strategy_name and clears the scratch data; so the active policy never
\* changes while a control loop is running.
C17_SwitchOnlyWhenStopped ==
    [][/\ \A name \in StrategyNames :
             switch_strategy(name) =>
                IF engine.running \/ name \notin Strategies
                THEN /\ obs'.error # ""
                     /\ engine'.strategy = engine.strategy
                     /\ state'.strategy_name = state.strategy_name
                     /\ state'.strategy_data = state.strategy_data
                ELSE /\ obs'.error = ""
                     /\ engine'.strategy = name
                     /\ state'.strategy_name = name
                     /\ state'.strategy_data = ""
       /\ engine'.strategy # engine.strategy => ~LoopAlive]_vars

\* C18: on restart with a persisted Position whose protective order is
\* COMPLETE, the engine closes the Position at that order's fill price and
\* then stops: no entry order is placed in that run.
C18_RecoveryCloseStops ==
    [][/\ \A t \in Loops :
             (Leaves(t, "rec_hist") /\ obs'.recovery_closed /\ ~obs.recovery_closed) =>
                /\ HasPos /\ ~HasPos'
                /\ state'.trades_today[Len(state'.trades_today)].exit_price =
                      orders[fr[t].sl_order_id].average_price
       /\ obs.recovery_closed =>
             ~\E c \in Ctx : Leaves(c, "ep_place") /\ Len(orders') > Len(orders)]_vars

\* C19: when the policy's on_sl_hit returns stop after a protective-order
\* fill, no context places an entry order until the engine is started
\* again.
C19_StopEndsTrading ==
    [][obs.policy_stopped =>
          ~\E c \in Ctx : Leaves(c, "ep_place") /\ Len(orders') > Len(orders)]_vars

\* the context that holds the engine lock across steps is the feed, inside
\* a tick's critical section
HoldsLock(c) == lock = c

\* C20: every write to a field of the shared state is made by a writer that
\* holds the engine lock, and the snapshot on disk equals the state in
\* memory each time the lock is released after a mutation.
C20_LockedAndSaved ==
    [][state' # state =>
          /\ LockFree \/ (HoldsLock("feed") /\ At("feed", "spin"))
          /\ LockFree' => disk' = state_to_dict(state')]_vars

\* the steps of the order-placing protocols: _enter_position, _square_off,
\* _execute_partial_exit
ProtocolSteps ==
    {"ep_place", "ep_fill", "ep_sl", "ep_record", "sq_begin", "sq_fill",
     "pe_begin", "pe_cancel", "pe_place", "pe_restore", "pe_fill", "pe_record", "pe_sl",
     "pe_update"}

InProtocol(c) == fr[c].pc \in ProtocolSteps

\* C21: no two contexts are inside an order-placing protocol at the same
\* time, and the feed callback is inside none: what it decides is handed to
\* the control loop through the deferred-work markers and executed there.
C21_OneProtocolAtATime ==
    /\ \A c, d \in Ctx : (InProtocol(c) /\ InProtocol(d)) => c = d
    /\ ~InProtocol("feed")

\* thread t's instrument selection has failed
SelectionFails(t) ==
    Leaves(t, "select") /\ state.trading_symbol = "" /\ state'.trading_symbol = ""

\* what the failure does, whatever the status was before
C22_SelectionFailureEffect ==
    [][\A t \in Loops :
          SelectionFails(t) =>
             /\ state'.engine_status = "STOPPED"
             /\ state'.status_message = "Instrument selection failed"
             /\ fr'[t].pc = "exit"
             /\ orders' = orders]_vars

\* C22: when instrument selection fails at startup the engine has not become
\* ACTIVE; it reports STOPPED with a message that names the failure, the
\* control loop ends, and no entry order is placed.
C22_SelectionFailureStops ==
    [][\A t \in Loops :
          SelectionFails(t) =>
             /\ state.engine_status # "ACTIVE"
             /\ state'.engine_status = "STOPPED"
             /\ state'.status_message = "Instrument selection failed"
             /\ fr'[t].pc = "exit"
             /\ orders' = orders]_vars

----------------------------------------------------------------------------
(* Instrument selection.                                                   *)

\* the loop's selection step when no instrument is selected yet
Selects(t) == Leaves(t, "select") /\ state.trading_symbol = ""

RequestedType == option_type_of(engine.strategy, state.strategy_data)

\* the listed NIFTY contracts of the requested type
Listed == {i \in market.instruments : i.name = "NIFTY" /\ i.instrument_type = RequestedType}

FarEnough(e) == e >= market.today + 30

LatestOfItsMonth(e) ==
    \A i \in Listed : (i.expiry \div DaysPerMonth = e \div DaysPerMonth) => i.expiry <= e

\* C23: whatever the broker lists, the contract the selection step stores is
\* a listed NIFTY contract of the requested option type whose expiry is at
\* least 30 days after today, is the latest expiry of its calendar month
\* among the NIFTY contracts of that type, and is the earliest expiry with
\* both properties; and when no NIFTY contract of that type expires at least
\* 30 days out, the step selects nothing.
C23_MonthlyExpiry ==
    [][\A t \in Loops : Selects(t) =>
          /\ state'.trading_symbol # "" =>
               \E c \in Listed :
                  /\ c.tradingsymbol = state'.trading_symbol
                  /\ c.instrument_token = state'.instrument_token
                  /\ FarEnough(c.expiry)
                  /\ LatestOfItsMonth(c.expiry)
                  /\ \A i \in Listed :
                        (FarEnough(i.expiry) /\ LatestOfItsMonth(i.expiry)) => c.expiry <= i.expiry
          /\ (\A i \in Listed : ~FarEnough(i.expiry)) => state'.trading_symbol = ""]_vars

\* the monthly contract was selected although an earlier weekly one and a
\* later monthly one were listed and far enough
C23_Witness ==
    /\ state.trading_symbol = "NIFTY55CE1"
    /\ {35, 55, 85} \subseteq {i.expiry : i \in market.instruments}
    /\ market.today = 0

\* the expiry C23 describes, when there is one
Eligible == {i \in Listed : FarEnough(i.expiry) /\ LatestOfItsMonth(i.expiry)}

\* the strikes of the chosen expiry that have a positive last price
PricedStrikes ==
    {i \in Eligible : /\ \A j \in Eligible : i.expiry <= j.expiry
                      /\ market.ltp[i.tradingsymbol] > 0}

Distance(i) ==
    IF market.ltp[i.tradingsymbol] >= state.settings.target_premium
    THEN market.ltp[i.tradingsymbol] - state.settings.target_premium
    ELSE state.settings.target_premium - market.ltp[i.tradingsymbol]

\* C24: when an expiry can be chosen, the selection step stores a strike of
\* that expiry whose positive last price is at the least distance from the
\* target premium, however large that distance is, and it selects nothing
\* exactly when no strike of that expiry has a positive last price.
C24_ClosestPremium ==
    [][\A t \in Loops : (Selects(t) /\ Eligible # {}) =>
          /\ (state'.trading_symbol = "") <=> (PricedStrikes = {})
          /\ state'.trading_symbol # "" =>
               \E c \in PricedStrikes :
                  /\ c.tradingsymbol = state'.trading_symbol
                  /\ \A d \in PricedStrikes : Distance(c) <= Distance(d)]_vars

\* a strike was selected whose price is further than a fifth of the target
\* premium from it, the other strike of the expiry having no price
C24_Witness ==
    /\ state.trading_symbol = "NIFTY55CE1"
    /\ market.today = 0
    /\ market.ltp["NIFTY55CE1"] = 1300
    /\ market.ltp["NIFTY55CE2"] = 0
    /\ 5 * (1300 - state.settings.target_premium) > state.settings.target_premium
    /\ \E i \in market.instruments : i.tradingsymbol = "NIFTY55CE2"

----------------------------------------------------------------------------
(* Partial exits.                                                          *)

LastQty(os) == os[Len(os)].qty

Lots(st) == st.active_position[1].remaining_lots

\* the failed exit of context c ends with the protective order it re-placed
\* stored and the lot count put back, and the ledger was not touched
Undone(c) ==
    /\ (HasPos /\ fr[c].sl_order_id # 0) =>
          /\ Lots(state') = Lots(state) + 1
          /\ state'.active_position[1].sl_order_id = fr[c].sl_order_id
    /\ state'.trades_today = state.trades_today

\* the exit order of context c was refused
PlacementFails(c) == At(c, "pe_place") /\ fr'[c].pc = "pe_restore"

\* the fill wait of context c ended without a fill
FillTimesOut(c) == At(c, "pe_fill") /\ fr'[c].pc = "pe_update"

\* the protective order re-placed in this step, if the broker took one, is
\* for the quantity held before the exit: what remains plus the lot
ReplacedForFullQty(c) ==
    /\ Len(orders') > Len(orders) =>
          /\ orders'[Len(orders')].kind = "SL"
          /\ LastQty(orders') = fr[c].qty + fr[c].lot_size
    /\ state' = state

\* C25 (the part that holds): when the exit order of a partial exit cannot be
\* placed, the protective order is re-placed for the pre-reduction quantity,
\* remaining_lots goes back up by the lot, and no TradeRecord is added.
C25_PlacementFailureUndone ==
    [][\A c \in Ctx :
          /\ PlacementFails(c) => ReplacedForFullQty(c)
          /\ (At(c, "pe_restore") /\ fr'[c].pc # "pe_restore") => Undone(c)]_vars

\* C25: when a partial exit fails, because the exit order cannot be placed
\* or because its fill wait times out, the protective order is re-placed for
\* the pre-reduction quantity, remaining_lots is restored, and no
\* TradeRecord is added.
C25_FailedExitUndone ==
    [][\A c \in Ctx :
          /\ PlacementFails(c) => ReplacedForFullQty(c)
          /\ (At(c, "pe_restore") /\ fr'[c].pc # "pe_restore") => Undone(c)
          /\ FillTimesOut(c) => ReplacedForFullQty(c)
          /\ (At(c, "pe_update") /\ fr[c].exit_price = 0 /\ fr'[c].pc # "pe_update")
                => Undone(c)]_vars

\* the steps of a partial exit of context c that goes well
ExitPlaced(c) == At(c, "pe_place") /\ fr'[c].pc = "pe_fill"

ExitFilled(c) == At(c, "pe_fill") /\ fr'[c].pc = "pe_record"

ExitRecorded(c) == At(c, "pe_record") /\ fr'[c].pc = "pe_sl"

ProtectionPlaced(c) == At(c, "pe_sl") /\ fr'[c].pc = "pe_update" /\ Len(orders') > Len(orders)

ProtectionStored(c) ==
    At(c, "pe_update") /\ fr'[c].pc # "pe_update" /\ fr[c].exit_price # 0 /\ fr[c].sl_order_id # 0

LastTrade(st) == st.trades_today[Len(st.trades_today)]

\* the orders placed for a partial exit that are not closed yet
OpenExitOrders(os) == {i \in 1..Len(os) : os[i].tag = "partial" /\ os[i].status = "OPEN"}

----------------------------------------------------------------------------
(* The tick handler.                                                       *)

\* a tick that crosses at least one target level of the open Position
TickCrosses ==
    /\ At("feed", "idle")
    /\ HasPos /\ state'.active_position # <<>>
    /\ state'.active_position[1].order_id = Pos.order_id
    /\ state'.active_position[1].target_price # Pos.target_price

\* the lots the tick takes off the Position for later exits
LotsDeferred == Lots(state) - Lots(state')

\* the tick handler's modify call returns
ModifyReturns == At("feed", "tk_modify") /\ fr'["feed"].pc # "tk_modify"

PartialExitSteps ==
    {"pe_begin", "pe_cancel", "pe_place", "pe_restore", "pe_fill", "pe_record", "pe_sl",
     "pe_update"}

\* C27: a tick that crosses target levels makes no broker call while it
\* holds the state: it takes zero or more lots off remaining_lots and adds
\* exactly that number to the pending partial exits.  When it took lots off,
\* the handler returns without any broker call; when it took none, it goes
\* on to one modify of the Position's protective order to the new stop-loss,
\* and that call changes nothing but the trigger of that order.  No order is
\* placed or cancelled by the handler.
C27_TickDefersExits ==
    [][/\ TickCrosses =>
             /\ orders' = orders
             /\ LotsDeferred >= 0
             /\ engine'.pending_partial_exits = engine.pending_partial_exits + LotsDeferred
             /\ LotsDeferred > 0 => fr'["feed"].pc = "idle"
             /\ LotsDeferred = 0 =>
                   /\ fr'["feed"].pc = "tk_modify"
                   /\ fr'["feed"].sl_order_id = state'.active_position[1].sl_order_id
                   /\ fr'["feed"].sl_price = state'.active_position[1].sl_price
       /\ ModifyReturns =>
             /\ fr'["feed"].pc = "idle"
             /\ \/ orders' = orders
                \/ orders' = [orders EXCEPT ![fr["feed"].sl_order_id].trigger = fr["feed"].sl_price]
             /\ state' = state /\ engine' = engine]_vars

\* C27, second sentence: the steps of a partial exit are taken by the control
\* loop only.
C27_ExitsOnlyInLoop ==
    \A c \in Ctx : fr[c].pc \in PartialExitSteps => c \in Loops

C27_TickHandler == C27_TickDefersExits /\ [](C27_ExitsOnlyInLoop)

\* a tick crossed two levels of a three-lot Position: one lot is left, two
\* exits are pending, the protective order is untouched and the handler has
\* returned
C27_Witness ==
    /\ HasPos
    /\ Lots(state) = 1
    /\ engine.pending_partial_exits = 2
    /\ At("feed", "idle")
    /\ orders[Pos.sl_order_id].status = "OPEN"
    /\ orders[Pos.sl_order_id].qty = 3 * state.lot_size
    /\ orders[Pos.sl_order_id].trigger # Pos.sl_price

\* C28: whatever the policy answers at a target level, also a number of
\* lots larger than the Position holds, an open Position never has fewer
\* than one lot; a tick on a Position of one lot takes no lot off it and
\* defers no exit.
C28_AtLeastOneLot ==
    /\ [](HasPos => Lots(state) >= 1)
    /\ [][(TickCrosses /\ Lots(state) = 1) =>
             /\ Lots(state') = 1
             /\ engine'.pending_partial_exits = engine.pending_partial_exits]_vars

\* the policy asked for four of three lots and then for two of one: two lots
\* were taken off, one is left, and the second level took none
C28_Witness ==
    /\ engine.strategy = GreedyPolicy
    /\ on_target_hit(engine.strategy, 3).exit_lots = 4
    /\ HasPos
    /\ Lots(state) = 1
    /\ engine.pending_partial_exits = 2
    /\ Pos.target_price >= Pos.entry_price + 3 * state.settings.target_points

----------------------------------------------------------------------------
(* Square-off.                                                             *)

\* _square_off of context c, begun on an open Position, returns
SquareOffEnds(c) ==
    \/ At(c, "sq_begin") /\ HasPos /\ fr'[c].pc # "sq_begin" /\ fr'[c].pc # "sq_fill"
    \/ At(c, "sq_fill") /\ fr'[c].pc # "sq_fill"

\* the closing order of context c, when it was placed and is now filled
ClosingFill(c) ==
    IF At(c, "sq_fill") /\ orders'[fr[c].order_id].status = "COMPLETE"
    THEN orders'[fr[c].order_id].average_price
    ELSE 0

\* C29: when _square_off returns, no Position is recorded and exactly one
\* TradeRecord has been appended by it, whether or not the closing order
\* filled: at the price of the fill when the closing order is filled, and
\* at exit price 0 when the order was refused or its fill was not confirmed.
C29_SquareOffClears ==
    [][\A c \in Ctx : SquareOffEnds(c) =>
          /\ state'.active_position = <<>>
          /\ Len(state'.trades_today) = Len(state.trades_today) + 1
          /\ LastTrade(state').exit_price = ClosingFill(c)
          /\ LastTrade(state').entry_time # "partial"]_vars

\* C29 (the part that holds): a _square_off that still finds the Position
\* when it returns clears it and appends exactly one TradeRecord, at the
\* price of the closing order's fill or at 0.
C29_SquareOffOfHeldPosition ==
    [][\A c \in Ctx : (SquareOffEnds(c) /\ HasPos) =>
          /\ state'.active_position = <<>>
          /\ Len(state'.trades_today) = Len(state.trades_today) + 1
          /\ LastTrade(state').exit_price = ClosingFill(c)
          /\ LastTrade(state').entry_price = Pos.entry_price]_vars

----------------------------------------------------------------------------
(* The lock around network calls.                                          *)

\* where a context is about to call the broker: order history, instrument
\* list and prices, place, cancel, modify, and the fill waits
BrokerCallSteps ==
    {"rec_hist", "select", "rs_select", "ep_place", "ep_fill", "ep_sl", "sq_begin", "sq_fill",
     "pe_cancel", "pe_place", "pe_fill", "pe_sl", "tk_modify"}

\* where a context is about to take the lock
LockingSteps ==
    {"start", "recover", "top", "eod", "eod2", "exit", "chk_rev", "post_entry", "ep_record",
     "pe_begin", "pe_restore", "pe_record", "pe_update", "sl_hit", "sl_close", "rs_stop",
     "finally", "st_join", "st_pos", "st_fin", "tk_modify", "sq_begin", "sq_fill"}

----------------------------------------------------------------------------
(* The day's ledger.                                                       *)

RECURSIVE SumPnl(_)
SumPnl(trades) ==
    IF trades = <<>> THEN 0 ELSE trades[1].pnl + SumPnl(Tail(trades))

\* C31: in every reachable state total_pnl is the sum of the pnl fields of
\* the TradeRecords in trades_today, and the snapshot on disk agrees.
C31_TotalIsSumOfTrades ==
    /\ state.total_pnl = SumPnl(state.trades_today)
    /\ disk.total_pnl = SumPnl([i \in 1..Len(disk.trades_today) |-> disk.trades_today[i].dict])

\* the ledger holds a partial exit and a full close, and their sum is not 0
C31_Witness ==
    /\ \E i, j \in 1..Len(state.trades_today) :
          /\ state.trades_today[i].entry_time = "partial"
          /\ state.trades_today[j].entry_time # "partial"
    /\ state.total_pnl # 0

\* the partial-exit records at the end of the ledger: those of the Position
\* that is open
RECURSIVE PartialsAtEnd(_)
PartialsAtEnd(trades) ==
    IF trades = <<>> \/ trades[Len(trades)].entry_time # "partial" THEN 0
    ELSE 1 + PartialsAtEnd(SubSeq(trades, 1, Len(trades) - 1))

\* the Position is closed in full in this step
FullClose ==
    /\ HasPos
    /\ state'.active_position = <<>>
    /\ Len(state'.trades_today) = Len(state.trades_today) + 1

\* the lots of the entry order of the open Position
LotsEntered == orders[Pos.order_id].qty \div state.lot_size

\* C32: when a Position is closed in full, the lots of its closing
\* TradeRecord plus one lot for each of its partial-exit TradeRecords are the
\* lots it was entered with.
C32_LotsConserved ==
    [][FullClose =>
          LastTrade(state').quantity + PartialsAtEnd(state.trades_today) = LotsEntered]_vars

----------------------------------------------------------------------------
(* Deferred exits and a lost Position: the buy_scale_out session with a    *)
(* broker whose calls may fail and a tick at the second target.  The       *)
(* control loop and the feed callback are threads that keep being          *)
(* scheduled: a step of either that stays enabled is eventually taken, and *)
(* a connected feed delivers the order updates sent to it.  Ticks, fills   *)
(* and broker answers are the environment's and are not fair.              *)

MaxPendingOrders == 4

PendingBroker == [prices |-> {EntryPrice0}, slips |-> {5}, ok |-> BOOLEAN,
                  book |-> MaxPendingOrders]

PendingTicks == {EntryPrice0 + 2 * DEFAULT_POINTS}

LoopThread ==
    \/ \E t \in Loops : LoopTrade(t, PendingBroker)
    \/ \E t \in Loops : Enter(t, PendingBroker)
    \/ \E t \in Loops : PartialExit(t, PendingBroker)

FeedThread ==
    \/ Enter("feed", PendingBroker)
    \/ feed_sl_hit
    \/ feed_sl_close
    \/ feed_rs_stop
    \/ feed_rs_select(PendingBroker)
    \/ feed_rs_ticker
    \/ feed_finally

NextPending ==
    \/ LoopThread
    \/ FeedThread
    \/ \E ltp \in PendingTicks : feed_tick(ltp)
    \/ \E id \in 1..MaxOrders : broker_fill_sl(id, PendingBroker)
    \/ \E id \in 1..MaxOrders : feed_order_update(id)
    \/ Start

\* the connected feed delivers the order updates the broker has sent
Delivery == \E id \in 1..MaxOrders : feed_order_update(id)

SpecPending ==
    /\ InitScaleOut
    /\ [][NextPending]_vars
    /\ WF_vars(LoopThread)
    /\ WF_vars(FeedThread)
    /\ WF_vars(Delivery)

LoopRuns == \E t \in Loops : fr[t].pc \notin {"idle", "exit"}

Flat ==
    /\ LoopRuns
    /\ state.engine_status = "ACTIVE"
    /\ ~HasPos
    /\ ~engine.reversal_in_progress

EntryAttempted == \E t \in Loops : At(t, "ep_place")

\* C33: the pending partial-exit count never blocks the control loop: while
\* the engine is ACTIVE with no Position and no reversal in progress, the
\* loop eventually attempts an entry (or a Position appears, a reversal
\* begins, or the loop ends) instead of repeating 'execute pending partial
\* exit, loop again' for ever.
C33_PendingNeverBlocks ==
    Flat ~> (EntryAttempted \/ HasPos \/ engine.reversal_in_progress \/ ~LoopRuns)

\* C33, the state half: whenever no Position is open the pending count is 0
C33_NoPendingWhenFlat ==
    ~HasPos => engine.pending_partial_exits = 0

----------------------------------------------------------------------------
(* Restarts: stop() and start() under the sar policy with a reliable       *)
(* broker, where start() may run while the thread of the earlier start()   *)
(* is still alive.                                                         *)

MaxRestartOrders == 3

RestartBroker == [prices |-> {EntryPrice0}, slips |-> {0}, ok |-> {TRUE},
                  book |-> MaxRestartOrders]

InitRestart ==
    /\ InitCommon
    /\ clock = START_TIME
    /\ auth
    /\ orders = <<>>
    /\ engine = Engine0("sar")
    /\ disk = state_to_dict(FreshState("sar"))
    /\ state = load_state(disk, Today)

NextRestart ==
    \/ \E t \in Threads : LoopTrade(t, RestartBroker)
    \/ \E c \in Ctx : Enter(c, RestartBroker)
    \/ \E c \in Ctx : SquareOff(c, RestartBroker)
    \/ \E t \in Threads : api_start(t)
    \/ Stop

SpecRestart == InitRestart /\ [][NextRestart]_vars

\* the threads that are inside _engine_loop
InEngineLoop == {t \in Threads : ~At(t, "idle")}

\* C34: at most one control-loop thread executes _engine_loop at any time
C34_OneLoopThread ==
    Cardinality(InEngineLoop) <= 1

\* two threads are both past the loop condition of line 883, in the body
C34_TwoLoopBodies ==
    ~(\A t \in Threads : fr[t].pc \in {"select", "ticker", "pexit", "chk_pos", "chk_rev"})

\* C35: at most one market-data feed is connected at any time
C35_OneFeed ==
    feeds <= 1

----------------------------------------------------------------------------
(* Trailing while scaling out: the buy_scale_out session with a reliable   *)
(* broker and ticks at the second and at the third target; no protective   *)
(* order fills.                                                            *)

\* the loop never ends and no placement fails in this session
LoopTrail(t, b) ==
    \/ loop_start(t)
    \/ loop_recover(t)
    \/ loop_top(t)
    \/ loop_select(t, b)
    \/ loop_ticker(t)
    \/ loop_pexit(t)
    \/ loop_chk_pos(t)
    \/ loop_chk_rev(t)
    \/ loop_post_entry(t)
    \/ pe_begin(t)
    \/ pe_cancel(t)
    \/ pe_place(t, b)
    \/ pe_fill(t, b)
    \/ pe_record(t)
    \/ pe_sl(t, b)
    \/ pe_update(t)

NextTrail ==
    \/ \E t \in Loops : LoopTrail(t, ScaleOutBroker)
    \/ \E c \in Ctx : Enter(c, ScaleOutBroker)
    \/ Ticks(ScaleOutTicks, ScaleOutBroker)
    \/ Start

SpecTrail == InitScaleOut /\ [][NextTrail]_vars

\* no tick is being handled, no partial exit is pending or under way, and
\* no other procedure of the engine is running
Settled ==
    /\ HasPos
    /\ At("feed", "idle")
    /\ engine.pending_partial_exits = 0
    /\ \A t \in Threads : fr[t].pc \notin PartialExitSteps \cup {"ep_place", "ep_fill", "ep_sl", "ep_record"}

\* the protective order the Position refers to is live at the broker
ProtectionLive ==
    /\ Pos.sl_order_id \in 1..Len(orders)
    /\ orders[Pos.sl_order_id].status = "OPEN"

\* C36: whenever a Position is open and no tick handling or partial exit is
\* in progress, the live protective order referenced by sl_order_id has the
\* Position's sl_price as trigger and remaining_lots * lot_size as quantity.
C36_ProtectionMatchesPosition ==
    (Settled /\ ProtectionLive) =>
        /\ orders[Pos.sl_order_id].trigger = Pos.sl_price
        /\ orders[Pos.sl_order_id].qty = Pos.remaining_lots * state.lot_size

\* the broker has reported COMPLETE for protective order id of the Position
\* entered by order e
FillReported(id, e) ==
    /\ HasPos
    /\ Pos.order_id = e
    /\ Pos.sl_order_id = id
    /\ id \in 1..Len(orders)
    /\ orders[id].status = "COMPLETE"

\* the Position entered by order e is closed at the fill price of order id
ClosedAtFill(id, e) ==
    /\ ~(HasPos /\ Pos.order_id = e)
    /\ id \in 1..Len(orders)
    /\ \E i \in 1..Len(state.trades_today) :
         /\ state.trades_today[i].entry_time # "partial"
         /\ state.trades_today[i].exit_price = orders[id].average_price

\* C37: no protective-order fill is lost: when the broker reports COMPLETE for
\* the protective order of a Position, that Position is eventually closed at
\* the reported fill price.
C37_FillClosesPosition ==
    \A id \in 1..MaxPendingOrders, e \in 1..MaxPendingOrders :
        FillReported(id, e) ~> ClosedAtFill(id, e)

\* the option types of the listed contracts that carry the selected symbol
SelectedTypes(st) ==
    {i.instrument_type : i \in {j \in market.instruments : j.tradingsymbol = st.trading_symbol}}

Alternating == engine.strategy \in {"buy_alternate", "buy_scale_out"}

\* _enter_position stores a Position (lines 467-480) while an instrument is
\* selected
PositionEntered ==
    /\ ~HasPos
    /\ state'.active_position # <<>>
    /\ state'.trading_symbol # ""

\* C38: under the alternating policies, whenever a Position is entered the
\* option type in the policy's scratch data is the option type of the
\* currently selected instrument.
C38_TypeMatchesInstrument ==
    [][(Alternating /\ PositionEntered) => SelectedTypes(state') = {state'.strategy_data}]_vars

\* the control loop has ended and left a final status
LoopEnded ==
    /\ ~engine.running
    /\ \A t \in Threads : At(t, "idle")
    /\ state.engine_status \in {"STOPPED", "MARKET_CLOSED"}

\* a context's _enter_position places its entry order
EntryPlaced == \E c \in Ctx : Leaves(c, "ep_place") /\ Len(orders') > Len(orders)

\* C39: no entry order is placed once the control loop has exited with
\* STOPPED or MARKET_CLOSED.
C39_NoEntryAfterLoopEnd ==
    [][LoopEnded => ~EntryPlaced]_vars

----------------------------------------------------------------------------
(* Tick handling to its end: the trading session, where the feed's thread  *)
(* keeps running a tick handler it has begun.                              *)

TickThread ==
    \/ feed_spin
    \/ feed_modify(TradeBroker)

SpecTick ==
    /\ InitTrade
    /\ [][NextTrade]_vars
    /\ WF_vars(TickThread)

\* the feed's thread is inside _handle_tick
InHandleTick == fr["feed"].pc \in {"spin", "tk_modify"}

\* C40: every invocation of _handle_tick terminates and releases the lock.
C40_TickTerminates ==
    InHandleTick ~> (~InHandleTick /\ lock = "")

====
